---- MODULE Spec2Model ----
(***************************************************************************)
(* GitLab Action Radar: the poll cycle of App (loadMergeRequests), the     *)
(* GitLabClient with its per-entity promise caches, the alert snapshot     *)
(* differ and the ignore-until-new-commit suppressor.                      *)
(*                                                                         *)
(* A merge request m has id m, project_id 1 and iid m, so the cache key    *)
(* "1:m" and the id m name the same merge request.  Timestamps are the     *)
(* naturals 1, 2, ... (a parseable ISO string, ordered by Date.parse);     *)
(* 0 stands for undefined.                                                 *)
(***************************************************************************)
EXTENDS Naturals, Sequences, FiniteSets, TLC

\* ------------------------------------------------------------------ bounds
MaxMr == 2
MaxUser == 2
MaxRuns == 2
MaxRemoteChanges == 1
MaxTokenChanges == 1
MaxDropped == 1
MaxFailures == 1
MaxStoredToken == 1
MaxChangingMr == 1
MaxLatestCommitAt == 1

MRs == 1..MaxMr
Users == 1..MaxUser
RunIds == 1..MaxRuns

\* The author of merge request m on the remote: merge request 2 is authored
\* by user 1, every other one by somebody who never logs in (user 0).
AuthorOf(m) == IF m = 2 THEN 1 ELSE 0

Kinds == {"approvals", "details", "notes", "commits"}
Pairs == Kinds \X MRs

\* ------------------------------------------------------- sequence helpers
RECURSIVE SetToSeq(_)
SetToSeq(S) ==
    IF S = {} THEN <<>>
    ELSE LET x == CHOOSE y \in S : \A z \in S : y <= z
         IN  <<x>> \o SetToSeq(S \ {x})

Range(s) == {s[i] : i \in 1..Len(s)}
Ids(items) == {items[i].id : i \in 1..Len(items)}

\* ---------------------------------------------------------------- payloads
\* undefined: a missing payload, a missing cache value.
Absent == [absent |-> TRUE]
IsAbsent(p) == "absent" \in DOMAIN p

\* The merge request as the two list endpoints return it (type MergeRequest).
\* reviewerState is the state of the current user's entry in reviewers.
ListRecord(rm, m) ==
    [id |-> m,
     author |-> AuthorOf(m),
     draft |-> FALSE,
     work_in_progress |-> FALSE,
     reviewerState |-> "unreviewed",
     approved_by |-> {},
     approvals_required |-> 0,
     has_conflicts |-> rm.conflict,
     merge_status |-> IF rm.conflict THEN "cannot_be_merged" ELSE "can_be_merged",
     pipeline |-> rm.ci]

\* GET /projects/1/merge_requests/m (type MergeRequestDetails).
DetailsPayload(rm) ==
    [has_conflicts |-> rm.conflict,
     merge_status |-> IF rm.conflict THEN "cannot_be_merged" ELSE "can_be_merged",
     head_pipeline |-> rm.ci,
     pipeline |-> "",
     detailed_merge_status |-> ""]

\* GET .../approvals (type MergeRequestApprovals): the approving user ids.
ApprovalsPayload(rm) == [approved_by |-> rm.approved_by]

\* GET .../commits: the created_at of every commit, newest first.
CommitsPayload(rm) == [commits |-> [i \in 1..rm.commit |-> rm.commit + 1 - i]]

\* GET .../notes: the notes, newest first.
NotesPayload(rm) == [notes |-> <<>>]

PayloadOf(kind, rm) ==
    CASE kind = "approvals" -> ApprovalsPayload(rm)
      [] kind = "details" -> DetailsPayload(rm)
      [] kind = "commits" -> CommitsPayload(rm)
      [] OTHER -> NotesPayload(rm)

\* ------------------------------------------------------------ GitLabClient
\* request: a non-2xx response throws.
RequestThrows(ok) == ~ok

\* dedupeById: a Map keyed by id keeps the position of the first occurrence
\* and the value of the last one.
RECURSIVE DedupeInto(_, _)
DedupeInto(acc, rest) ==
    IF rest = <<>> THEN acc
    ELSE LET mr == Head(rest)
             hit == {i \in 1..Len(acc) : acc[i].id = mr.id}
         IN  IF hit = {}
             THEN DedupeInto(Append(acc, mr), Tail(rest))
             ELSE DedupeInto([i \in 1..Len(acc) |-> IF i \in hit THEN mr ELSE acc[i]],
                             Tail(rest))
\* The variant keeps the first record seen for an id.
dedupeByIdKeepingFirst(mergeRequests) ==
    LET kept == SelectSeq([i \in 1..Len(mergeRequests) |->
                              [mr |-> mergeRequests[i],
                               first |-> \A j \in 1..(i - 1) :
                                            mergeRequests[j].id # mergeRequests[i].id]],
                          LAMBDA x : x.first)
    IN  [i \in 1..Len(kept) |-> kept[i].mr]
dedupeById(mergeRequests) == DedupeInto(<<>>, mergeRequests)

\* normalizeStatusValue: trim and lower-case a string, '' for anything else.
normalizeStatusValue(value) ==
    CASE value = "FAILED" -> "failed"
      [] value = " failed " -> "failed"
      [] value = "Success" -> "success"
      [] value = "  " -> ""
      [] OTHER -> value

isDraftMergeRequest(mr) == mr.draft = TRUE \/ mr.work_in_progress = TRUE

hasReviewerMarkedReviewed(mr) ==
    normalizeStatusValue(mr.reviewerState)
        \in {"reviewed", "approved", "requested_changes", "commented"}

\* isReviewedByUser up to its await: TRUE when the list record alone decides.
ReviewedByListRecord(mr, userId) ==
    hasReviewerMarkedReviewed(mr) \/ userId \in mr.approved_by

\* isReviewedByUser after the approvals lookup resolved to approvals; the
\* variant takes a failed lookup for an approval.
ReviewedByApprovalsOrFailed(approvals, userId) ==
    IsAbsent(approvals) \/ userId \in approvals.approved_by
ReviewedByApprovals(approvals, userId) ==
    ~IsAbsent(approvals) /\ userId \in approvals.approved_by

isReviewedByUser(mr, approvals, userId) ==
    ReviewedByListRecord(mr, userId) \/ ReviewedByApprovals(approvals, userId)

\* listMyRelevantMergeRequests: the reviewer-scoped list before the review
\* state is looked up, and after.
FilteredReviewRequested(reviewRequested) ==
    SelectSeq(dedupeById(reviewRequested), LAMBDA mr : ~isDraftMergeRequest(mr))

\* getNormalizedCiStatus: the details are preferred when they are available,
\* the pipeline of the list response can be stale.  The variant falls back to
\* the list response whenever the details carry no status.
getNormalizedCiStatusFallingBack(mr, details) ==
    LET head == IF IsAbsent(details) THEN ""
                ELSE normalizeStatusValue(details.head_pipeline)
        pipe == IF IsAbsent(details) THEN ""
                ELSE normalizeStatusValue(details.pipeline)
    IN  IF head # "" THEN head
        ELSE IF pipe # "" THEN pipe
        ELSE normalizeStatusValue(mr.pipeline)
getNormalizedCiStatus(mr, details) ==
    LET head == IF IsAbsent(details) THEN ""
                ELSE normalizeStatusValue(details.head_pipeline)
        pipe == IF IsAbsent(details) THEN ""
                ELSE normalizeStatusValue(details.pipeline)
    IN  IF head # "" THEN head
        ELSE IF pipe # "" THEN pipe
        ELSE IF ~IsAbsent(details) THEN ""
        ELSE normalizeStatusValue(mr.pipeline)

\* isCiFailedStatus: a failed pipeline counts unless the detailed merge status
\* of the details says the merge request is healthy.  The variant never looks
\* at the details.
isCiFailedStatusWhateverDetailsSay(normalizedCiStatus, details) ==
    normalizedCiStatus = "failed"
isCiFailedStatus(normalizedCiStatus, details) ==
    IF normalizedCiStatus # "failed" THEN FALSE
    ELSE LET dms == IF IsAbsent(details) THEN ""
                    ELSE normalizeStatusValue(details.detailed_merge_status)
         IN  IF dms = "" THEN TRUE
             ELSE IF dms \in {"can_be_merged", "mergeable"} THEN FALSE
             ELSE TRUE

CiStatusValues ==
    {"success", "running", "pending", "canceled", "skipped", "manual",
     "scheduled", "created", "preparing", "waiting_for_resource"}

toCiStatus(normalizedCiStatus, details) ==
    IF normalizedCiStatus = "" THEN "unknown"
    ELSE IF normalizedCiStatus = "failed"
         THEN (IF isCiFailedStatus(normalizedCiStatus, details) THEN "failed" ELSE "unknown")
    ELSE IF normalizedCiStatus \in CiStatusValues THEN normalizedCiStatus
    ELSE "unknown"

hasMergeConflict(mr, details) ==
    \/ (~IsAbsent(details) /\ details.has_conflicts)
    \/ (~IsAbsent(details) /\ details.merge_status = "cannot_be_merged")
    \/ mr.has_conflicts
    \/ mr.merge_status = "cannot_be_merged"

\* buildOwnMergeRequestChecks, from the resolved approvals and details
\* lookups; a field the payload does not carry is undefined.
\* The variant reads nothing but the approved flag and the discussion count.
buildOwnMergeRequestChecksOfOneFieldEach(mr, approvals, details) ==
    [isApproved |-> /\ ~IsAbsent(approvals) /\ "approved" \in DOMAIN approvals
                    /\ approvals.approved = TRUE,
     hasUnresolvedComments |->
         /\ ~IsAbsent(details) /\ "unresolved_discussions_count" \in DOMAIN details
         /\ details.unresolved_discussions_count > 0,
     ciStatus |-> toCiStatus(getNormalizedCiStatus(mr, details), details)]
buildOwnMergeRequestChecks(mr, approvals, details) ==
    LET approvalHas(f) == ~IsAbsent(approvals) /\ f \in DOMAIN approvals
        detailHas(f) == ~IsAbsent(details) /\ f \in DOMAIN details
    IN  [isApproved |->
             \/ (approvalHas("approved") /\ approvals.approved = TRUE)
             \/ (approvalHas("approvals_left") /\ approvals.approvals_left = 0)
             \/ (approvalHas("approved_by") /\ Cardinality(approvals.approved_by) > 0),
         hasUnresolvedComments |->
             \/ (detailHas("unresolved_discussions_count")
                     /\ details.unresolved_discussions_count > 0)
             \/ (detailHas("blocking_discussions_resolved")
                     /\ details.blocking_discussions_resolved = FALSE),
         ciStatus |-> toCiStatus(getNormalizedCiStatus(mr, details), details)]

\* A timestamp is a number; 0 stands for an undefined or empty one and
\* Unparseable for a non-empty string that Date.parse turns into NaN.
Unparseable == MaxLatestCommitAt + 2

\* isLaterThan: both timestamps present and parseable, left strictly later.
\* The variant takes equal timestamps for later.
isLaterThanOrEqual(left, right) ==
    IF left = 0 \/ right = 0 THEN FALSE
    ELSE IF left = Unparseable \/ right = Unparseable THEN FALSE
    ELSE left >= right
isLaterThan(left, right) ==
    IF left = 0 \/ right = 0 THEN FALSE
    ELSE IF left = Unparseable \/ right = Unparseable THEN FALSE
    ELSE left > right

\* getLatestCommitAt: the first greatest created_at, undefined for no commits.
RECURSIVE LatestOf(_, _)
LatestOf(commits, best) ==
    IF commits = <<>> THEN best
    ELSE LatestOf(Tail(commits),
                  IF Head(commits) # 0 /\ Head(commits) # Unparseable /\ Head(commits) > best
                  THEN Head(commits) ELSE best)
getLatestCommitAt(commits) ==
    IF IsAbsent(commits) THEN 0 ELSE LatestOf(commits.commits, 0)

resolveReviewStatus(reviewerLastCommentedAt, latestCommitAt, authorLastCommentedAt) ==
    IF reviewerLastCommentedAt = 0 THEN "new"
    ELSE IF \/ isLaterThan(latestCommitAt, reviewerLastCommentedAt)
            \/ isLaterThan(authorLastCommentedAt, reviewerLastCommentedAt)
         THEN "needs_review"
    ELSE "waiting_for_author"

\* The scan of buildReviewerMergeRequestChecks over the notes, newest first:
\* <<reviewerLastCommentedAt, authorLastCommentedAt>>.
RECURSIVE ScanNotes(_, _, _, _, _)
ScanNotes(notes, currentUserId, mrAuthorId, reviewerAt, authorAt) ==
    IF notes = <<>> \/ (reviewerAt # 0 /\ authorAt # 0) THEN <<reviewerAt, authorAt>>
    ELSE LET note == Head(notes)
         IN  IF note.system
             THEN ScanNotes(Tail(notes), currentUserId, mrAuthorId, reviewerAt, authorAt)
             ELSE IF note.author = currentUserId /\ reviewerAt = 0
             THEN ScanNotes(Tail(notes), currentUserId, mrAuthorId, note.created_at, authorAt)
             ELSE IF note.author = mrAuthorId /\ authorAt = 0
             THEN ScanNotes(Tail(notes), currentUserId, mrAuthorId, reviewerAt, note.created_at)
             ELSE ScanNotes(Tail(notes), currentUserId, mrAuthorId, reviewerAt, authorAt)

\* buildReviewerMergeRequestChecks: the review status from the scan of the
\* notes the lookup resolved to, none when it failed.  The variant takes the
\* system notes for comments.
buildReviewerMergeRequestChecksOverSystemNotes(mr, currentUserId, latestCommitAt, notes) ==
    LET all == IF IsAbsent(notes) THEN <<>> ELSE notes.notes
        scan == ScanNotes([i \in 1..Len(all) |-> [all[i] EXCEPT !.system = FALSE]],
                          currentUserId, mr.author, 0, 0)
    IN  resolveReviewStatus(scan[1], latestCommitAt, scan[2])
buildReviewerMergeRequestChecks(mr, currentUserId, latestCommitAt, notes) ==
    LET scan == ScanNotes(IF IsAbsent(notes) THEN <<>> ELSE notes.notes,
                          currentUserId, mr.author, 0, 0)
    IN  resolveReviewStatus(scan[1], latestCommitAt, scan[2])

\* One element of buildHealthSignals: the MergeRequestHealth of mr, from the
\* resolved lookups.  reviewStatus is "none" without reviewerChecks.
\* hasPendingApprovals of buildHealthSignals: the required approvals of the
\* list record against its embedded approvals, 0 for a missing field.  The
\* variant does not count the embedded approvals.
hasPendingApprovalsOfRequired(mr) ==
    (IF "approvals_required" \in DOMAIN mr THEN mr.approvals_required ELSE 0) > 0
hasPendingApprovals(mr) ==
    LET approvalsRequired == IF "approvals_required" \in DOMAIN mr
                             THEN mr.approvals_required ELSE 0
        approvedCount == IF "approved_by" \in DOMAIN mr
                         THEN Cardinality(mr.approved_by) ELSE 0
    IN  approvalsRequired > approvedCount

Health(mr, currentUserId, details, approvals, commits, notes, includeReviewerChecks) ==
    LET isCreatedByMe == mr.author = currentUserId
        latestCommitAt == getLatestCommitAt(commits)
        ownMrChecks == IF isCreatedByMe
                       THEN buildOwnMergeRequestChecks(mr, approvals, details)
                       ELSE Absent
        ciStatus == IF ~IsAbsent(ownMrChecks) THEN ownMrChecks.ciStatus
                    ELSE toCiStatus(getNormalizedCiStatus(mr, details), details)
    IN  [id |-> mr.id,
         ciStatus |-> ciStatus,
         hasFailedCi |-> ciStatus = "failed",
         hasConflicts |-> hasMergeConflict(mr, details),
         hasPendingApprovals |-> hasPendingApprovals(mr),
         isCreatedByMe |-> isCreatedByMe,
         ownMrChecks |-> ownMrChecks,
         latestCommitAt |-> latestCommitAt,
         reviewStatus |-> IF includeReviewerChecks
                          THEN buildReviewerMergeRequestChecks(mr, currentUserId,
                                                               latestCommitAt, notes)
                          ELSE "none"]

\* --------------------------------------------- lib/ignoredAssignedAlerts.ts
\* The variant has no sentinel: an undefined timestamp is a signature of its own kind.
toCommitSignatureWithoutSentinel(latestCommitAt) == <<"at", latestCommitAt>>

\* The commit signature of a latest-commit timestamp: the timestamp itself,
\* the sentinel 'no-commit' when it is undefined or blank.
toCommitSignature(latestCommitAt) ==
    IF latestCommitAt = 0 THEN <<"no-commit">> ELSE <<"at", latestCommitAt>>

\* previous.<flag> === true: a stored entry may lack the flag altogether.
FlagAbsentCountsAsTrue(previous, flag) ==
    flag \notin DOMAIN previous \/ previous[flag] = TRUE
FlagIsTrue(previous, flag) ==
    flag \in DOMAIN previous /\ previous[flag] = TRUE

EmptyMap == [m \in {} |-> 0]
MapSet(map, key, value) ==
    [k \in DOMAIN map \cup {key} |-> IF k = key THEN value ELSE map[k]]

\* The entry survives although its signature differs from the current one.
SignatureDiffersNever(previous, item) == FALSE
SignatureDiffers(previous, item) ==
    previous.commitSignature # toCommitSignature(item.latestCommitAt)

\* The signals of an item that its entry suppresses right now; the variant
\* reports the stored flags whether or not the signal is still there.
ActiveIgnoredSignalsAsStored(previous, item) ==
    [ignoreConflicts |-> FlagIsTrue(previous, "ignoreConflicts"),
     ignoreFailedCi |-> FlagIsTrue(previous, "ignoreFailedCi")]
ActiveIgnoredSignals(previous, item) ==
    [ignoreConflicts |-> FlagIsTrue(previous, "ignoreConflicts") /\ item.hasConflicts,
     ignoreFailedCi |-> FlagIsTrue(previous, "ignoreFailedCi") /\ item.hasFailedCi]

\* The variant rewrites the kept entry with the signals that are active now.
ApplyIgnoredStepStoringActive(acc, item, previousState) ==
    IF item.id \notin DOMAIN previousState THEN acc
    ELSE LET previous == previousState[item.id]
             active == ActiveIgnoredSignals(previous, item)
         IN  IF SignatureDiffers(previous, item) THEN acc
             ELSE IF ~active.ignoreConflicts /\ ~active.ignoreFailedCi THEN acc
             ELSE [ignoredMergeRequestIds |-> acc.ignoredMergeRequestIds \cup {item.id},
                   activeIgnoredSignals |-> MapSet(acc.activeIgnoredSignals, item.id, active),
                   nextState |->
                       MapSet(acc.nextState, item.id,
                              [commitSignature |-> previous.commitSignature,
                               ignoreConflicts |-> active.ignoreConflicts,
                               ignoreFailedCi |-> active.ignoreFailedCi])]


\* One iteration of the loop of applyIgnoredAssignedAlertsUntilNewCommit.
ApplyIgnoredStep(acc, item, previousState) ==
    IF item.id \notin DOMAIN previousState THEN acc
    ELSE LET previous == previousState[item.id]
             active == ActiveIgnoredSignals(previous, item)
             ignoreConflicts == active.ignoreConflicts
             ignoreFailedCi == active.ignoreFailedCi
         IN  IF SignatureDiffers(previous, item) THEN acc
             ELSE IF ~ignoreConflicts /\ ~ignoreFailedCi THEN acc
             ELSE [ignoredMergeRequestIds |-> acc.ignoredMergeRequestIds \cup {item.id},
                   activeIgnoredSignals |->
                       MapSet(acc.activeIgnoredSignals, item.id,
                              [ignoreConflicts |-> ignoreConflicts,
                               ignoreFailedCi |-> ignoreFailedCi]),
                   nextState |-> MapSet(acc.nextState, item.id, previous)]

RECURSIVE ApplyIgnoredLoop(_, _, _)
ApplyIgnoredLoop(acc, items, previousState) ==
    IF items = <<>> THEN acc
    ELSE ApplyIgnoredLoop(ApplyIgnoredStep(acc, Head(items), previousState),
                          Tail(items), previousState)

applyIgnoredAssignedAlertsUntilNewCommit(items, previousState) ==
    ApplyIgnoredLoop([ignoredMergeRequestIds |-> {},
                      activeIgnoredSignals |-> EmptyMap,
                      nextState |-> EmptyMap],
                     items, previousState)

\* ------------------------------------------------- lib/assignedAlertDiff.ts
RECURSIVE buildAssignedAlertSnapshot(_)
buildAssignedAlertSnapshot(items) ==
    IF items = <<>> THEN EmptyMap
    ELSE LET item == items[Len(items)]
         IN  MapSet(buildAssignedAlertSnapshot(SubSeq(items, 1, Len(items) - 1)),
                    item.id,
                    [hasConflicts |-> item.hasConflicts, hasFailedCi |-> item.hasFailedCi])

\* previous?.<flag> !== true
NotTrueBeforeOnlyWhenAbsent(previousSnapshot, id, flag) ==
    id \notin DOMAIN previousSnapshot
NotTrueBeforeOnlyWhenPresent(previousSnapshot, id, flag) ==
    id \in DOMAIN previousSnapshot /\ previousSnapshot[id][flag] # TRUE
NotTrueBefore(previousSnapshot, id, flag) ==
    id \notin DOMAIN previousSnapshot \/ previousSnapshot[id][flag] # TRUE

\* The variant reports every risky item, whatever the previous snapshot holds.
detectAssignedAlertDiffOfEveryRisk(previousSnapshot, currentItems) ==
    [newlyConflicted |-> SelectSeq(currentItems, LAMBDA item : item.hasConflicts),
     newlyFailedCi |-> SelectSeq(currentItems, LAMBDA item : item.hasFailedCi)]


detectAssignedAlertDiff(previousSnapshot, currentItems) ==
    [newlyConflicted |->
         SelectSeq(currentItems,
                   LAMBDA item : item.hasConflicts
                                 /\ NotTrueBefore(previousSnapshot, item.id, "hasConflicts")),
     newlyFailedCi |->
         SelectSeq(currentItems,
                   LAMBDA item : item.hasFailedCi
                                 /\ NotTrueBefore(previousSnapshot, item.id, "hasFailedCi"))]

\* --------------------------------------------------------- App.tsx helpers
summarizeTrayIndicator(assigned, reviewRequested) ==
    LET conflicted == {i \in 1..Len(assigned) : assigned[i].hasConflicts}
        failed == {i \in 1..Len(assigned) : assigned[i].hasFailedCi}
        pending == {i \in 1..Len(reviewRequested) :
                        reviewRequested[i].reviewStatus \in {"needs_review", "new", "none"}}
    IN  [conflictCount |-> Cardinality(conflicted),
         failedCiCount |-> Cardinality(failed),
         reviewPendingCount |-> Cardinality(pending),
         actionableTotalCount |->
             Cardinality({assigned[i].id : i \in conflicted \cup failed}
                         \cup {reviewRequested[i].id : i \in pending})]

EmptyTray ==
    [conflictCount |-> 0, failedCiCount |-> 0, reviewPendingCount |-> 0,
     actionableTotalCount |-> 0]

\* ------------------------------------------------------------------- state
VARIABLES
    remote,                               \* the platform: per merge request
    remoteChanges,                        \* how many times the remote changed
    failures,                             \* how many requests failed
    authLoading,                          \* App: authLoading
    patToken,                             \* App: patToken, 0 for '' (no client)
    tokenChanges,                         \* the generation of the client object
    cache,                                \* GitLabClient: the four promise caches
    cacheGen,                             \* the client generation cache belongs to
    loadInFlightRef,                      \* App: loadInFlightRef.current
    runs,                                 \* the invocations of loadMergeRequests
    nextRun,                              \* how many cycles were started
    dropped,                              \* how many triggers were dropped
    assignedItems,                        \* App: assignedItems
    reviewRequestedItems,                 \* App: reviewRequestedItems
    loading,                              \* App: loading
    error,                                \* App: error
    tray,                                 \* the last summary sent to the tray
    assignedAlertSnapshotRef,
    assignedAlertSnapshotInitializedRef,
    assignedAlertSnapshotUserIdRef,       \* 0 for undefined
    ignoredAssignedAlertsRef,
    ignoredAssignedAlertsUserIdRef,       \* 0 for undefined
    store,                                \* app-settings.json: the saved settings
    settingsLoaded,                       \* App: settingsLoaded
    restarts,                             \* how many times the app was restarted
    lastAlert,                            \* the last immediate notification sent
    lastOk,                               \* the last successful cycle, as observed
    pushed,                               \* suppressed, then a commit was pushed
    pure                                  \* the suppressor applied on its own

envVars == <<remote, remoteChanges>>
runVars == <<nextRun, dropped>>
authVars == <<authLoading, patToken, tokenChanges>>
clientVars == <<cache, cacheGen>>
uiVars == <<assignedItems, reviewRequestedItems, loading, error, tray>>
snapshotVars ==
    <<assignedAlertSnapshotRef, assignedAlertSnapshotInitializedRef,
      assignedAlertSnapshotUserIdRef>>
ignoredVars == <<ignoredAssignedAlertsRef, ignoredAssignedAlertsUserIdRef>>
settingsVars == <<store, settingsLoaded, restarts>>
historyVars == <<lastAlert, lastOk, pushed>>
vars ==
    <<envVars, failures, authVars, clientVars, loadInFlightRef, runs, runVars, uiVars,
      snapshotVars, ignoredVars, settingsVars, historyVars, pure>>

NoError == ""
missingPatTokenMessage == "missing PAT"
ApiErrorMessage == "GitLab API error"

\* ------------------------------------------------------- the promise caches
MissEntry == [st |-> "miss", val |-> Absent]
PendingEntry == [st |-> "pending", val |-> Absent]
EmptyCache == [p \in Pairs |-> MissEntry]
NoRequests == [p \in Pairs |-> 0]

\* What a consumer awaiting the cached promise of p receives.
Val(c, kind, m) == IF c[<<kind, m>>].st = "ok" THEN c[<<kind, m>>].val ELSE Absent

\* getMergeRequestApprovals/Details/Notes/Commits: return the cached promise,
\* or issue the request and cache its promise before returning it.
LookupWithoutMemo(c, p) ==
    IF c[p].st # "miss" THEN [cache |-> c, issued |-> FALSE]
    ELSE [cache |-> c, issued |-> TRUE]
Lookup(c, p) ==
    IF c[p].st # "miss" THEN [cache |-> c, issued |-> FALSE]
    ELSE [cache |-> [c EXCEPT ![p] = PendingEntry], issued |-> TRUE]

\* The lookups of one synchronous stretch of code, in program order.
RECURSIVE IssueAll(_, _, _)
IssueAll(c, req, consumers) ==
    IF consumers = <<>> THEN [cache |-> c, req |-> req]
    ELSE LET p == Head(consumers)
             res == Lookup(c, p)
         IN  IssueAll(res.cache,
                      IF res.issued THEN [req EXCEPT ![p] = @ + 1] ELSE req,
                      Tail(consumers))

\* request(...).catch(() => undefined): how the cached promise settles.
SettleForgetsFailure(ok, payload) ==
    IF RequestThrows(ok) THEN MissEntry ELSE [st |-> "ok", val |-> payload]
Settle(ok, payload) ==
    IF RequestThrows(ok) THEN [st |-> "absent", val |-> Absent]
    ELSE [st |-> "ok", val |-> payload]

\* The lookups isReviewedByUser starts for the reviewer-scoped candidates.
RECURSIVE ReviewConsumers(_, _)
ReviewConsumers(list, userId) ==
    IF list = <<>> THEN <<>>
    ELSE (IF ReviewedByListRecord(Head(list), userId) THEN <<>>
          ELSE << <<"approvals", Head(list).id>> >>)
         \o ReviewConsumers(Tail(list), userId)

\* The lookups buildHealthSignals starts synchronously, per merge request:
\* details, the two of buildOwnMergeRequestChecks, commits.
RECURSIVE HealthConsumers(_, _, _)
HealthConsumers(list, currentUserId, shouldIncludeLatestCommitAt) ==
    IF list = <<>> THEN <<>>
    ELSE LET mr == Head(list)
         IN  << <<"details", mr.id>> >>
             \o (IF mr.author = currentUserId
                 THEN << <<"approvals", mr.id>>, <<"details", mr.id>> >> ELSE <<>>)
             \o (IF shouldIncludeLatestCommitAt THEN << <<"commits", mr.id>> >> ELSE <<>>)
             \o HealthConsumers(Tail(list), currentUserId, shouldIncludeLatestCommitAt)

\* The lookups buildReviewerMergeRequestChecks starts: notes, and commits
\* again when no latest commit timestamp was handed in.
RECURSIVE ReviewerCheckConsumers(_, _)
ReviewerCheckConsumers(list, c) ==
    IF list = <<>> THEN <<>>
    ELSE LET mr == Head(list)
         IN  << <<"notes", mr.id>> >>
             \o (IF getLatestCommitAt(Val(c, "commits", mr.id)) = 0
                 THEN << <<"commits", mr.id>> >> ELSE <<>>)
             \o ReviewerCheckConsumers(Tail(list), c)

\* A record is built only for the merge requests whose details arrived.
buildHealthSignalsOfFetched(list, currentUserId, c, includeReviewerChecks) ==
    LET fetched == SelectSeq(list, LAMBDA mr : ~IsAbsent(Val(c, "details", mr.id)))
    IN  [i \in 1..Len(fetched) |->
            Health(fetched[i], currentUserId, Val(c, "details", fetched[i].id),
                   Val(c, "approvals", fetched[i].id), Val(c, "commits", fetched[i].id), Val(c, "notes", fetched[i].id),
                   includeReviewerChecks)]
buildHealthSignals(list, currentUserId, c, includeReviewerChecks) ==
    [i \in 1..Len(list) |->
        Health(list[i], currentUserId, Val(c, "details", list[i].id),
               Val(c, "approvals", list[i].id), Val(c, "commits", list[i].id), Val(c, "notes", list[i].id),
               includeReviewerChecks)]

\* ---------------------------------------------------------------- the runs
NoOk == [valid |-> FALSE, uid |-> 0, flags |-> EmptyMap, ignored |-> {}, stable |-> TRUE]
NoAlert == [run |-> 0, newlyConflicted |-> {}, newlyFailedCi |-> {}]
NoDiff == [newlyConflicted |-> <<>>, newlyFailedCi |-> <<>>]
NoPre == <<>>

IdleRun ==
    [pc |-> "none", tok |-> 0, gen |-> 0, background |-> FALSE, uid |-> 0,
     assigned |-> <<>>, candidates |-> <<>>, reviewRequested |-> <<>>,
     used |-> {}, req |-> NoRequests, failedPairs |-> {},
     raw |-> <<>>, review |-> <<>>, actionable |-> <<>>, diff |-> NoDiff,
     canCompare |-> FALSE, prevOk |-> NoOk, pre |-> NoPre, userActed |-> FALSE,
     sawPushed |-> {}, stable |-> TRUE, permission |-> ""]
EndedRun == [IdleRun EXCEPT !.pc = "ended"]

InFlight(r) == runs[r].pc \notin {"none", "ended"}
Resolved(r) == \A p \in runs[r].used : cache[p].st # "pending"

\* --------------------------------------------------------------------- Init
\* The application after mount, before the saved token is read: no client,
\* empty lists, a fresh settings store.  The remote holds merge request 1
\* assigned to the user (with or without a conflict), and merge request 2 (authored by user 1) with the
\* user as assignee and reviewer.
InitialRemotes ==
    {[m \in MRs |->
        [assigned |-> TRUE, reviewer |-> (m = 2), conflict |-> (m = 1 /\ c),
         ci |-> "success", commit |-> 1, approved_by |-> {}]] : c \in BOOLEAN}

NoCycle == [items |-> <<>>]
NoPure == [state |-> EmptyMap, cycle |-> NoCycle]

\* The function a pure-function specification applied.
IsCall(name) == "call" \in DOMAIN pure /\ pure.call = name

\* ------------------------------------------------- the persisted settings
\* The settings of a store that was never written (normalizeAppSettings of
\* no payload), restricted to the fields of the alert state.
NoSettings ==
    [assignedAlertSnapshot |-> <<>>, assignedAlertSnapshotInitialized |-> FALSE,
     assignedAlertSnapshotUserId |-> 0,
     ignoredAssignedAlerts |-> <<>>, ignoredAssignedAlertsUserId |-> 0]

normalizeSettingsUserId(value) == IF value > 0 THEN value ELSE 0

RECURSIVE restoreAssignedAlertSnapshot(_)
restoreAssignedAlertSnapshot(entries) ==
    IF entries = <<>> THEN EmptyMap
    ELSE LET n == Len(entries)
             entry == entries[n]
         IN  MapSet(restoreAssignedAlertSnapshot(SubSeq(entries, 1, n - 1)),
                    entry.mergeRequestId,
                    [hasConflicts |-> entry.hasConflicts,
                     hasFailedCi |-> entry.hasFailedCi])

serializeAssignedAlertSnapshotEntries(snapshot) ==
    LET ids == SetToSeq(DOMAIN snapshot)
    IN  [i \in 1..Len(ids) |->
            [mergeRequestId |-> ids[i],
             hasConflicts |-> snapshot[ids[i]].hasConflicts,
             hasFailedCi |-> snapshot[ids[i]].hasFailedCi]]

\* Entries without a positive id are skipped, a later entry of an id
\* replaces an earlier one, flags are true only when stored as true, and the
\* result is sorted by id.
normalizeAssignedAlertSnapshotEntries(rawEntries) ==
    LET valid == SelectSeq(rawEntries, LAMBDA entry : entry.mergeRequestId > 0)
        deduped ==
            restoreAssignedAlertSnapshot(
                [i \in 1..Len(valid) |->
                    [mergeRequestId |-> valid[i].mergeRequestId,
                     hasConflicts |-> valid[i].hasConflicts = TRUE,
                     hasFailedCi |-> valid[i].hasFailedCi = TRUE]])
    IN  serializeAssignedAlertSnapshotEntries(deduped)

\* The restored state of an entry: its commit signature and nothing else.
RestoredEntry(entry) == [commitSignature |-> entry.commitSignature]

RECURSIVE restoreIgnoredAssignedAlerts(_)
restoreIgnoredAssignedAlerts(entries) ==
    IF entries = <<>> THEN EmptyMap
    ELSE LET n == Len(entries)
             entry == entries[n]
         IN  MapSet(restoreIgnoredAssignedAlerts(SubSeq(entries, 1, n - 1)),
                    entry.mergeRequestId, RestoredEntry(entry))

serializeIgnoredAssignedAlerts(snapshot) ==
    LET ids == SetToSeq(DOMAIN snapshot)
    IN  [i \in 1..Len(ids) |->
            [mergeRequestId |-> ids[i],
             commitSignature |-> snapshot[ids[i]].commitSignature]]

normalizeIgnoredAssignedAlertEntries(rawEntries) ==
    LET valid == SelectSeq(rawEntries, LAMBDA entry : entry.mergeRequestId > 0)
        deduped ==
            restoreIgnoredAssignedAlerts(
                [i \in 1..Len(valid) |->
                    [mergeRequestId |-> valid[i].mergeRequestId,
                     commitSignature |-> valid[i].commitSignature]])
    IN  serializeIgnoredAssignedAlerts(deduped)

normalizeAppSettings(payload) ==
    LET assignedAlertSnapshotUserId ==
            normalizeSettingsUserId(payload.assignedAlertSnapshotUserId)
        assignedAlertSnapshotInitialized ==
            payload.assignedAlertSnapshotInitialized = TRUE
                /\ assignedAlertSnapshotUserId # 0
        ignoredAssignedAlertsUserId ==
            normalizeSettingsUserId(payload.ignoredAssignedAlertsUserId)
    IN  [assignedAlertSnapshot |->
             IF assignedAlertSnapshotInitialized
             THEN normalizeAssignedAlertSnapshotEntries(payload.assignedAlertSnapshot)
             ELSE <<>>,
         assignedAlertSnapshotInitialized |-> assignedAlertSnapshotInitialized,
         assignedAlertSnapshotUserId |-> assignedAlertSnapshotUserId,
         ignoredAssignedAlerts |->
             IF ignoredAssignedAlertsUserId # 0
             THEN normalizeIgnoredAssignedAlertEntries(payload.ignoredAssignedAlerts)
             ELSE <<>>,
         ignoredAssignedAlertsUserId |-> ignoredAssignedAlertsUserId]

AppInit ==
    /\ remote \in InitialRemotes
    /\ remoteChanges = 0
    /\ failures = 0
    /\ authLoading = TRUE
    /\ patToken = 0
    /\ tokenChanges = 0
    /\ cache = EmptyCache
    /\ cacheGen = 0
    /\ loadInFlightRef = FALSE
    /\ runs = [r \in RunIds |-> IdleRun]
    /\ nextRun = 0
    /\ dropped = 0
    /\ assignedItems = <<>>
    /\ reviewRequestedItems = <<>>
    /\ loading = FALSE
    /\ error = NoError
    /\ tray = EmptyTray
    /\ assignedAlertSnapshotRef = EmptyMap
    /\ assignedAlertSnapshotInitializedRef = FALSE
    /\ assignedAlertSnapshotUserIdRef = 0
    /\ ignoredAssignedAlertsRef = EmptyMap
    /\ ignoredAssignedAlertsUserIdRef = 0
    /\ store = NoSettings
    /\ restarts = 0
    /\ lastAlert = NoAlert
    /\ lastOk = NoOk
    /\ pushed = {}

\* One session, from the point where loadSettings has applied a store that
\* holds no settings.
Init == AppInit /\ settingsLoaded = TRUE /\ pure = NoPure

\* ------------------------------------------------------- loadMergeRequests
\* if (loadInFlightRef.current) return;
GuardNeverDrops(inFlight) == FALSE
GuardDrops(inFlight) == inFlight

\* What the cycle must leave alone when it fails (recorded at its start).
PreOf ==
    <<assignedItems, reviewRequestedItems, assignedAlertSnapshotRef,
      assignedAlertSnapshotInitializedRef, assignedAlertSnapshotUserIdRef,
      ignoredAssignedAlertsRef, ignoredAssignedAlertsUserIdRef>>

\* loadMergeRequests({background}) called with the client of token tok
\* (generation gen), up to its first await.
LoadMergeRequests(tok, gen, background) ==
    IF GuardDrops(loadInFlightRef)
    THEN /\ dropped < MaxDropped
         /\ dropped' = dropped + 1
         /\ UNCHANGED <<clientVars, loadInFlightRef, runs, nextRun, uiVars, snapshotVars,
                        ignoredVars, historyVars>>
    ELSE IF tok = 0
    THEN /\ assignedAlertSnapshotRef' = EmptyMap
         /\ assignedAlertSnapshotInitializedRef' = FALSE
         /\ assignedAlertSnapshotUserIdRef' = 0
         /\ ignoredAssignedAlertsRef' = EmptyMap
         /\ ignoredAssignedAlertsUserIdRef' = 0
         /\ assignedItems' = <<>>
         /\ reviewRequestedItems' = <<>>
         /\ loading' = FALSE
         /\ error' = missingPatTokenMessage
         /\ tray' = EmptyTray
         /\ lastOk' = NoOk
         /\ pushed' = {}
         /\ UNCHANGED <<clientVars, loadInFlightRef, runs, runVars, lastAlert>>
    ELSE /\ nextRun < MaxRuns
         /\ nextRun' = nextRun + 1
         /\ loadInFlightRef' = TRUE
         /\ loading' = (IF background THEN loading ELSE TRUE)
         /\ error' = NoError
         /\ cache' = (IF cacheGen = gen THEN cache ELSE EmptyCache)
         /\ cacheGen' = gen
         /\ runs' = [runs EXCEPT ![nextRun + 1] =
                        [IdleRun EXCEPT !.pc = "user", !.tok = tok, !.gen = gen,
                                        !.background = background,
                                        !.pre = PreOf, !.sawPushed = pushed]]
         /\ UNCHANGED <<dropped, assignedItems, reviewRequestedItems, tray,
                        snapshotVars, ignoredVars, historyVars>>

\* catch (err) { setError(...) } finally { setLoading(false); flag = false }
FailClearingLists(r) ==
    /\ error' = ApiErrorMessage
    /\ loading' = (IF runs[r].background THEN loading ELSE FALSE)
    /\ loadInFlightRef' = FALSE
    /\ runs' = [runs EXCEPT ![r] = EndedRun]
    /\ assignedItems' = <<>>
    /\ reviewRequestedItems' = <<>>
    /\ UNCHANGED <<envVars, settingsVars, pure, authVars, clientVars, runVars, tray,
                   snapshotVars, ignoredVars, historyVars>>
Fail(r) ==
    /\ error' = ApiErrorMessage
    /\ loading' = (IF runs[r].background THEN loading ELSE FALSE)
    /\ loadInFlightRef' = FALSE
    /\ runs' = [runs EXCEPT ![r] = EndedRun]
    /\ UNCHANGED <<envVars, settingsVars, pure, authVars, clientVars, runVars, assignedItems,
                   reviewRequestedItems, tray, snapshotVars, ignoredVars,
                   historyVars>>

\* A request of the cycle answers, with a failure while the budget lasts.
Failure(ok) ==
    /\ ok \/ failures < MaxFailures
    /\ failures' = IF ok THEN failures ELSE failures + 1

\* GET /user answers.
UserResponse(r, ok) ==
    /\ runs[r].pc = "user"
    /\ Failure(ok)
    /\ IF RequestThrows(ok) THEN Fail(r)
       ELSE /\ runs' = [runs EXCEPT ![r].pc = "lists", ![r].uid = runs[r].tok]
            /\ UNCHANGED <<envVars, settingsVars, pure, authVars, clientVars, loadInFlightRef, runVars,
                           uiVars, snapshotVars, ignoredVars, historyVars>>

AssignedList == SelectSeq(SetToSeq(MRs), LAMBDA m : remote[m].assigned)
ReviewerList == SelectSeq(SetToSeq(MRs), LAMBDA m : remote[m].reviewer)
ListOf(ids) == [i \in 1..Len(ids) |-> ListRecord(remote[ids[i]], ids[i])]

\* The two list queries answer; the resolver dedupes, drops drafts and starts
\* the approvals lookups of isReviewedByUser.
ListsResponse(r, okAssigned, okReviewer) ==
    /\ runs[r].pc = "lists"
    /\ Failure(okAssigned /\ okReviewer)
    /\ IF RequestThrows(okAssigned) \/ RequestThrows(okReviewer) THEN Fail(r)
       ELSE LET assigned == dedupeById(ListOf(AssignedList))
                candidates == FilteredReviewRequested(ListOf(ReviewerList))
                consumers == ReviewConsumers(candidates, runs[r].uid)
                issued == IssueAll(cache, runs[r].req, consumers)
            IN  /\ cache' = issued.cache
                /\ runs' = [runs EXCEPT ![r].pc = "review",
                                        ![r].assigned = assigned,
                                        ![r].candidates = candidates,
                                        ![r].used = Range(consumers),
                                        ![r].req = issued.req]
                /\ UNCHANGED <<envVars, settingsVars, pure, authVars, cacheGen, loadInFlightRef, runVars,
                               uiVars, snapshotVars, ignoredVars,
                               historyVars>>

\* A per-entity request of the client answers.
Respond(p, ok) ==
    /\ cache[p].st = "pending"
    /\ Failure(ok)
    /\ cache' = [cache EXCEPT ![p] = Settle(ok, PayloadOf(p[1], remote[p[2]]))]
    /\ runs' = [r \in RunIds |->
                   IF InFlight(r) /\ p \in runs[r].used /\ ~ok
                   THEN [runs[r] EXCEPT !.failedPairs = @ \cup {p}]
                   ELSE runs[r]]
    /\ UNCHANGED <<envVars, settingsVars, pure, authVars, cacheGen, loadInFlightRef, runVars, uiVars,
                   snapshotVars, ignoredVars, historyVars>>

\* listMyRelevantMergeRequests returns; both buildHealthSignals calls start.
ReviewDone(r) ==
    /\ runs[r].pc = "review"
    /\ Resolved(r)
    /\ LET uid == runs[r].uid
           reviewRequested ==
               SelectSeq(runs[r].candidates,
                         LAMBDA mr : ~isReviewedByUser(mr, Val(cache, "approvals", mr.id),
                                                       uid))
           consumers == HealthConsumers(runs[r].assigned, uid, TRUE)
                        \o HealthConsumers(reviewRequested, uid, TRUE)
           issued == IssueAll(cache, runs[r].req, consumers)
       IN  /\ cache' = issued.cache
           /\ runs' = [runs EXCEPT ![r].pc = "health",
                                   ![r].reviewRequested = reviewRequested,
                                   ![r].used = @ \cup Range(consumers),
                                   ![r].req = issued.req]
    /\ UNCHANGED <<envVars, settingsVars, pure, failures, authVars, cacheGen, loadInFlightRef, runVars, uiVars,
                   snapshotVars, ignoredVars, historyVars>>

\* The first Promise.all of every element resolved; the reviewer checks start.
HealthDone(r) ==
    /\ runs[r].pc = "health"
    /\ Resolved(r)
    /\ LET consumers == ReviewerCheckConsumers(runs[r].reviewRequested, cache)
           issued == IssueAll(cache, runs[r].req, consumers)
       IN  /\ cache' = issued.cache
           /\ runs' = [runs EXCEPT ![r].pc = "notes",
                                   ![r].used = @ \cup Range(consumers),
                                   ![r].req = issued.req]
    /\ UNCHANGED <<envVars, settingsVars, pure, failures, authVars, cacheGen, loadInFlightRef, runVars, uiVars,
                   snapshotVars, ignoredVars, historyVars>>

\* The flags of every item, by id (what an observer of the cycle records).
FlagsOf(items) ==
    [id \in Ids(items) |->
        LET item == items[CHOOSE i \in 1..Len(items) : items[i].id = id]
        IN  [hasConflicts |-> item.hasConflicts, hasFailedCi |-> item.hasFailedCi]]

\* previousIgnoredAssignedAlerts: the stored entries when they were stored
\* for the user of the cycle, else a new Map.
StoredIgnoredAssignedAlertsOfAnyUser(sameUser, stored) == stored
StoredIgnoredAssignedAlerts(sameUser, stored) == IF sameUser THEN stored ELSE EmptyMap

\* actionableAssignedSignals: the assigned records that are not suppressed;
\* the variant keeps them all.
ActionableAssignedSignalsUnfiltered(rawAssignedSignals, ignoredMergeRequestIds) == rawAssignedSignals
ActionableAssignedSignals(rawAssignedSignals, ignoredMergeRequestIds) ==
    SelectSeq(rawAssignedSignals, LAMBDA item : item.id \notin ignoredMergeRequestIds)

\* previousSnapshot: the stored snapshot when it is comparable, else a new Map.
SnapshotToCompareAlwaysStored(canCompare, stored) == stored
SnapshotToCompare(canCompare, stored) == IF canCompare THEN stored ELSE EmptyMap

\* if (canCompareWithPreviousSnapshot) await notifyImmediateAssignedAlerts(...)
NotifiesAfterDiffAlways(canCompare) == TRUE
NotifiesAfterDiff(canCompare) == canCompare

\* Both buildHealthSignals calls resolved: lines 1198-1225, and, when the
\* snapshot is not comparable (no await in between), lines 1229-1231 too.
Apply(r) ==
    /\ runs[r].pc = "notes"
    /\ Resolved(r)
    /\ LET uid == runs[r].uid
           rawAssignedSignals == buildHealthSignals(runs[r].assigned, uid, cache, FALSE)
           reviewRequestedSignals ==
               buildHealthSignals(runs[r].reviewRequested, uid, cache, TRUE)
           sameIgnoredAssignedAlertsUser ==
               ignoredAssignedAlertsUserIdRef # 0 /\ ignoredAssignedAlertsUserIdRef = uid
           previousIgnoredAssignedAlerts ==
               StoredIgnoredAssignedAlerts(sameIgnoredAssignedAlertsUser,
                                           ignoredAssignedAlertsRef)
           applied == applyIgnoredAssignedAlertsUntilNewCommit(rawAssignedSignals,
                                                               previousIgnoredAssignedAlerts)
           actionableAssignedSignals ==
               ActionableAssignedSignals(rawAssignedSignals, applied.ignoredMergeRequestIds)
           canCompareWithPreviousSnapshot ==
               assignedAlertSnapshotInitializedRef /\ assignedAlertSnapshotUserIdRef = uid
           previousSnapshot ==
               SnapshotToCompare(canCompareWithPreviousSnapshot, assignedAlertSnapshotRef)
           assignedAlertDiff == detectAssignedAlertDiff(previousSnapshot,
                                                        actionableAssignedSignals)
       IN  /\ ignoredAssignedAlertsRef' = applied.nextState
           /\ ignoredAssignedAlertsUserIdRef' = uid
           /\ assignedAlertSnapshotRef' = buildAssignedAlertSnapshot(actionableAssignedSignals)
           /\ assignedAlertSnapshotInitializedRef' = TRUE
           /\ assignedAlertSnapshotUserIdRef' = uid
           /\ lastOk' = [valid |-> TRUE, uid |-> uid, flags |-> FlagsOf(rawAssignedSignals),
                         ignored |-> applied.ignoredMergeRequestIds,
                         stable |-> runs[r].stable]
           /\ pushed' = pushed \cap DOMAIN applied.nextState
           /\ runs' = [runs EXCEPT
                          ![r].pc = IF NotifiesAfterDiff(canCompareWithPreviousSnapshot)
                                   THEN "notify" ELSE "tray",
                          ![r].raw = rawAssignedSignals,
                          ![r].review = reviewRequestedSignals,
                          ![r].actionable = actionableAssignedSignals,
                          ![r].diff = assignedAlertDiff,
                          ![r].canCompare = canCompareWithPreviousSnapshot,
                          ![r].prevOk = lastOk]
           /\ IF NotifiesAfterDiff(canCompareWithPreviousSnapshot)
              THEN UNCHANGED <<assignedItems, reviewRequestedItems, tray>>
              ELSE /\ assignedItems' = rawAssignedSignals
                   /\ reviewRequestedItems' = reviewRequestedSignals
                   /\ tray' = summarizeTrayIndicator(actionableAssignedSignals,
                                                     reviewRequestedSignals)
    /\ UNCHANGED <<envVars, settingsVars, pure, failures, authVars, clientVars, loadInFlightRef, runVars, loading,
                   error, lastAlert>>

\* notifyImmediateAssignedAlerts: whether a notification goes out.
SendsAlert(diff, permission) ==
    /\ ~(Len(diff.newlyConflicted) = 0 /\ Len(diff.newlyFailedCi) = 0)
    /\ permission = "granted"

\* await notifyImmediateAssignedAlerts(diff) returns; lines 1229-1231.
Notify(r, permission) ==
    /\ runs[r].pc = "notify"
    /\ lastAlert' = IF SendsAlert(runs[r].diff, permission)
                    THEN [run |-> r,
                          newlyConflicted |-> Ids(runs[r].diff.newlyConflicted),
                          newlyFailedCi |-> Ids(runs[r].diff.newlyFailedCi)]
                    ELSE lastAlert
    /\ assignedItems' = runs[r].raw
    /\ reviewRequestedItems' = runs[r].review
    /\ tray' = summarizeTrayIndicator(runs[r].actionable, runs[r].review)
    /\ runs' = [runs EXCEPT ![r].pc = "tray", ![r].permission = permission]
    /\ UNCHANGED <<envVars, settingsVars, pure, failures, authVars, clientVars, loadInFlightRef, runVars, loading,
                   error, snapshotVars, ignoredVars, lastOk,
                   pushed>>

\* await updateTrayIndicator(...) returns; the finally block.
\* The variant has no finally block.
EndWithoutFinally(r) ==
    /\ runs[r].pc = "tray"
    /\ runs' = [runs EXCEPT ![r] = EndedRun]
    /\ UNCHANGED <<envVars, settingsVars, pure, failures, authVars, clientVars, runVars,
                   loadInFlightRef, uiVars, snapshotVars, ignoredVars, historyVars>>
End(r) ==
    /\ runs[r].pc = "tray"
    /\ loading' = (IF runs[r].background THEN loading ELSE FALSE)
    /\ loadInFlightRef' = FALSE
    /\ runs' = [runs EXCEPT ![r] = EndedRun]
    /\ UNCHANGED <<envVars, settingsVars, pure, failures, authVars, clientVars, runVars, assignedItems,
                   reviewRequestedItems, error, tray, snapshotVars, ignoredVars,
                   historyVars>>

\* ----------------------------------- ignoreAssignedMergeRequestUntilNewCommit
IgnoreMR(mergeRequestId) ==
    LET hit == {i \in 1..Len(assignedItems) : assignedItems[i].id = mergeRequestId}
    IN  /\ hit # {}
        /\ LET target == assignedItems[CHOOSE i \in hit : \A j \in hit : i <= j]
               nextIgnoredAssignedAlerts ==
                   MapSet(ignoredAssignedAlertsRef, mergeRequestId,
                          [commitSignature |-> toCommitSignature(target.latestCommitAt)])
           IN  /\ target.hasConflicts \/ target.hasFailedCi
               /\ ignoredAssignedAlertsRef' = nextIgnoredAssignedAlerts
               /\ ignoredAssignedAlertsUserIdRef' =
                      IF assignedAlertSnapshotUserIdRef # 0
                      THEN assignedAlertSnapshotUserIdRef
                      ELSE ignoredAssignedAlertsUserIdRef
               /\ tray' = summarizeTrayIndicator(
                              SelectSeq(assignedItems,
                                        LAMBDA item : item.id \notin
                                                      DOMAIN nextIgnoredAssignedAlerts),
                              reviewRequestedItems)
        /\ pushed' = pushed \ {mergeRequestId}
        /\ runs' = [r \in RunIds |->
                       IF InFlight(r) THEN [runs[r] EXCEPT !.userActed = TRUE] ELSE runs[r]]
        /\ UNCHANGED <<envVars, settingsVars, pure, failures, authVars, clientVars, loadInFlightRef, runVars,
                       assignedItems, reviewRequestedItems, loading, error, snapshotVars,
                       lastAlert, lastOk>>

\* ------------------------------------------------------------- the platform
RemoteChange(m, what) ==
    /\ remoteChanges < MaxRemoteChanges
    /\ remoteChanges' = remoteChanges + 1
    /\ remote' = [remote EXCEPT ![m] =
                     CASE what = "conflict" -> [@ EXCEPT !.conflict = ~@]
                       [] what = "ci" ->
                              [@ EXCEPT !.ci = IF @ = "failed" THEN "success" ELSE "failed"]
                       [] OTHER -> [@ EXCEPT !.commit = @ + 1]]
    /\ pushed' = IF what = "push" /\ m \in DOMAIN ignoredAssignedAlertsRef
                 THEN pushed \cup {m} ELSE pushed
    /\ runs' = [r \in RunIds |->
                   IF InFlight(r) THEN [runs[r] EXCEPT !.stable = FALSE] ELSE runs[r]]
    /\ UNCHANGED <<failures, settingsVars, pure, authVars, clientVars, loadInFlightRef, runVars, uiVars, snapshotVars,
                   ignoredVars, lastAlert, lastOk>>

\* ---------------------------------------------------- token and triggers
\* loadSavedPat finished: the effect on [authLoading, loadMergeRequests] runs.
AuthLoaded(storedToken) ==
    /\ authLoading
    /\ authLoading' = FALSE
    /\ patToken' = storedToken
    /\ LoadMergeRequests(storedToken, tokenChanges, FALSE)
    /\ UNCHANGED <<envVars, settingsVars, pure, failures, tokenChanges>>

\* savePatToken: a new client, and the effect calls loadMergeRequests.
SaveToken(token) ==
    /\ ~authLoading
    /\ token # patToken
    /\ tokenChanges < MaxTokenChanges
    /\ patToken' = token
    /\ tokenChanges' = tokenChanges + 1
    /\ LoadMergeRequests(token, tokenChanges + 1, FALSE)
    /\ UNCHANGED <<envVars, settingsVars, pure, failures, authLoading>>

\* clearSavedPatToken: no client any more, and the effect calls loadMergeRequests.
ClearToken ==
    /\ ~authLoading
    /\ patToken # 0
    /\ tokenChanges < MaxTokenChanges
    /\ patToken' = 0
    /\ tokenChanges' = tokenChanges + 1
    /\ LoadMergeRequests(0, tokenChanges + 1, FALSE)
    /\ UNCHANGED <<envVars, settingsVars, pure, failures, authLoading>>

\* The Reload button (disabled while loading or without a client).
ManualReload ==
    /\ ~authLoading /\ patToken # 0 /\ ~loading
    /\ LoadMergeRequests(patToken, tokenChanges, FALSE)
    /\ UNCHANGED <<envVars, settingsVars, pure, failures, authVars>>

\* The auto-polling interval fires.
AutoPoll ==
    /\ ~authLoading /\ patToken # 0
    /\ LoadMergeRequests(patToken, tokenChanges, TRUE)
    /\ UNCHANGED <<envVars, settingsVars, pure, failures, authVars>>

\* tick of the review reminder at a scheduled minute: skipped while a cycle
\* is in flight, else it calls loadMergeRequests.
ReminderTick ==
    /\ ~authLoading /\ patToken # 0
    /\ IF loadInFlightRef THEN UNCHANGED vars
       ELSE /\ LoadMergeRequests(patToken, tokenChanges, FALSE)
            /\ UNCHANGED <<envVars, settingsVars, pure, failures, authVars>>

Next ==
    \/ \E t \in 0..MaxStoredToken : AuthLoaded(t)
    \/ \E t \in Users : SaveToken(t)
    \/ ClearToken
    \/ ManualReload
    \/ AutoPoll
    \/ ReminderTick
    \/ \E r \in RunIds, ok \in BOOLEAN : UserResponse(r, ok)
    \/ \E r \in RunIds, okA \in BOOLEAN, okR \in BOOLEAN : ListsResponse(r, okA, okR)
    \/ \E p \in Pairs, ok \in BOOLEAN : Respond(p, ok)
    \/ \E r \in RunIds : ReviewDone(r)
    \/ \E r \in RunIds : HealthDone(r)
    \/ \E r \in RunIds : Apply(r)
    \/ \E r \in RunIds, permission \in {"granted", "denied"} : Notify(r, permission)
    \/ \E r \in RunIds : End(r)
    \/ \E m \in MRs : IgnoreMR(m)
    \/ \E m \in 1..MaxChangingMr, what \in {"conflict", "ci", "push"} : RemoteChange(m, what)

Spec == Init /\ [][Next]_vars

\* The session under the scheduling of the runtime: every request that was
\* issued is answered in the end, and a continuation that can run does run.
CycleStep(r) ==
    \/ \E ok \in BOOLEAN : UserResponse(r, ok)
    \/ \E okA \in BOOLEAN, okR \in BOOLEAN : ListsResponse(r, okA, okR)
    \/ ReviewDone(r)
    \/ HealthDone(r)
    \/ Apply(r)
    \/ \E permission \in {"granted", "denied"} : Notify(r, permission)
    \/ End(r)

\* The triggers, the cycles and the answers of the remote.
NextLive ==
    \/ \E t \in 0..MaxStoredToken : AuthLoaded(t)
    \/ ManualReload
    \/ AutoPoll
    \/ \E r \in RunIds : CycleStep(r)
    \/ \E p \in Pairs, ok \in BOOLEAN : Respond(p, ok)

SpecLive ==
    /\ Init /\ [][NextLive]_vars
    /\ WF_vars(\E r \in RunIds : CycleStep(r))
    /\ WF_vars(\E p \in Pairs, ok \in BOOLEAN : Respond(p, ok))

\* ------------------------------------------------ settings across a restart
MaxRestarts == 1

\* The settings the persistence effect hands to saveAppSettings: the state
\* variables it reads hold the serialized refs at every write.
CurrentSettings ==
    [assignedAlertSnapshot |->
         serializeAssignedAlertSnapshotEntries(assignedAlertSnapshotRef),
     assignedAlertSnapshotInitialized |-> assignedAlertSnapshotInitializedRef,
     assignedAlertSnapshotUserId |-> assignedAlertSnapshotUserIdRef,
     ignoredAssignedAlerts |-> serializeIgnoredAssignedAlerts(ignoredAssignedAlertsRef),
     ignoredAssignedAlertsUserId |-> ignoredAssignedAlertsUserIdRef]

\* The persistence effect (gated on settingsLoaded) and saveAppSettings,
\* which returns early when nothing changed.
PersistSettings ==
    /\ settingsLoaded
    /\ CurrentSettings # store
    /\ store' = CurrentSettings
    /\ UNCHANGED <<envVars, failures, authVars, clientVars, loadInFlightRef, runs,
                   runVars, uiVars, snapshotVars, ignoredVars, settingsLoaded, restarts,
                   historyVars, pure>>

\* loadSettings: the stored settings are normalized and applied to the refs.
\* Nothing orders it with loadSavedPat or with a cycle.
ApplySettings ==
    /\ ~settingsLoaded
    /\ LET settings == normalizeAppSettings(store)
       IN  /\ assignedAlertSnapshotRef' =
                  restoreAssignedAlertSnapshot(settings.assignedAlertSnapshot)
           /\ assignedAlertSnapshotInitializedRef' =
                  settings.assignedAlertSnapshotInitialized
           /\ assignedAlertSnapshotUserIdRef' = settings.assignedAlertSnapshotUserId
           /\ ignoredAssignedAlertsRef' =
                  restoreIgnoredAssignedAlerts(settings.ignoredAssignedAlerts)
           /\ ignoredAssignedAlertsUserIdRef' = settings.ignoredAssignedAlertsUserId
    /\ settingsLoaded' = TRUE
    /\ UNCHANGED <<envVars, failures, authVars, clientVars, loadInFlightRef, runs,
                   runVars, uiVars, store, restarts, historyVars, pure>>

\* The app is closed and started again: the memory of the process is that
\* of a fresh start, the store and the platform stay as they are.
Restart ==
    /\ restarts < MaxRestarts
    /\ restarts' = restarts + 1
    /\ settingsLoaded' = FALSE
    /\ authLoading' = TRUE
    /\ patToken' = 0
    /\ cache' = EmptyCache
    /\ loadInFlightRef' = FALSE
    /\ runs' = [r \in RunIds |-> IF r <= nextRun THEN EndedRun ELSE IdleRun]
    /\ assignedItems' = <<>>
    /\ reviewRequestedItems' = <<>>
    /\ loading' = FALSE
    /\ error' = NoError
    /\ tray' = EmptyTray
    /\ assignedAlertSnapshotRef' = EmptyMap
    /\ assignedAlertSnapshotInitializedRef' = FALSE
    /\ assignedAlertSnapshotUserIdRef' = 0
    /\ ignoredAssignedAlertsRef' = EmptyMap
    /\ ignoredAssignedAlertsUserIdRef' = 0
    /\ lastOk' = NoOk
    /\ pushed' = {}
    /\ UNCHANGED <<envVars, failures, tokenChanges, cacheGen, runVars, store,
                   lastAlert, pure>>

InitRestart ==
    /\ AppInit /\ remote[1].conflict
    /\ settingsLoaded = FALSE /\ pure = NoPure

\* The sessions of one user whose requests all succeed.
NextRestart ==
    \/ \E t \in 0..MaxStoredToken : AuthLoaded(t)
    \/ ManualReload
    \/ AutoPoll
    \/ \E r \in RunIds : UserResponse(r, TRUE)
    \/ \E r \in RunIds : ListsResponse(r, TRUE, TRUE)
    \/ \E p \in Pairs : Respond(p, TRUE)
    \/ \E r \in RunIds : ReviewDone(r)
    \/ \E r \in RunIds : HealthDone(r)
    \/ \E r \in RunIds : Apply(r)
    \/ \E r \in RunIds : Notify(r, "granted")
    \/ \E r \in RunIds : End(r)
    \/ \E m \in MRs : IgnoreMR(m)
    \/ \E m \in 1..MaxChangingMr, what \in {"conflict", "ci", "push"} : RemoteChange(m, what)
    \/ PersistSettings
    \/ ApplySettings
    \/ Restart

SpecRestart == InitRestart /\ [][NextRestart]_vars

\* ------------------------------------------------ the suppressor on its own
\* The suppressor of lib/ignoredAssignedAlerts.ts driven as the library's
\* tests drive it: entries with or without the two flags, cycles over any
\* assigned items, each cycle's nextState being the next cycle's
\* previousState.
SuppressEntries ==
    {[commitSignature |-> toCommitSignature(t)] : t \in 0..MaxLatestCommitAt}
    \cup {[commitSignature |-> toCommitSignature(t), ignoreConflicts |-> c,
           ignoreFailedCi |-> f] : t \in 0..MaxLatestCommitAt, c \in BOOLEAN, f \in BOOLEAN}

SuppressItem(m, conflicts, failedCi, latestCommitAt) ==
    [id |-> m, ciStatus |-> IF failedCi THEN "failed" ELSE "success",
     hasFailedCi |-> failedCi, hasConflicts |-> conflicts, isCreatedByMe |-> FALSE,
     latestCommitAt |-> latestCommitAt, reviewStatus |-> "none"]

SuppressItemsOf(m) ==
    {<<>>} \cup {<<SuppressItem(m, c, f, t)>> :
                    c \in BOOLEAN, f \in BOOLEAN, t \in 0..MaxLatestCommitAt}

RECURSIVE SuppressItemLists(_)
SuppressItemLists(n) ==
    IF n = 0 THEN {<<>>}
    ELSE {front \o last : front \in SuppressItemLists(n - 1), last \in SuppressItemsOf(n)}

InitSuppress ==
    /\ AppInit /\ (\A m \in MRs : ~remote[m].conflict)
    /\ settingsLoaded = TRUE /\ pure = NoPure

\* An entry is stored for merge request m.
SuppressIgnore(m, entry) ==
    /\ pure' = [state |-> MapSet(pure.state, m, entry), cycle |-> NoCycle]
    /\ UNCHANGED <<envVars, settingsVars, failures, authVars, clientVars, loadInFlightRef, runs,
                   runVars, uiVars, snapshotVars, ignoredVars, historyVars>>

\* One cycle: the suppressor is applied to the cycle's assigned items.
SuppressCycle(items) ==
    /\ LET result == applyIgnoredAssignedAlertsUntilNewCommit(items, pure.state)
       IN  pure' = [state |-> result.nextState,
                    cycle |-> [items |-> items, previousState |-> pure.state,
                               result |-> result]]
    /\ UNCHANGED <<envVars, settingsVars, failures, authVars, clientVars, loadInFlightRef, runs,
                   runVars, uiVars, snapshotVars, ignoredVars, historyVars>>

NextSuppress ==
    \/ \E m \in MRs, entry \in SuppressEntries : SuppressIgnore(m, entry)
    \/ \E items \in SuppressItemLists(MaxMr) : SuppressCycle(items)

SpecSuppress == InitSuppress /\ [][NextSuppress]_vars

\* ------------------------------------------ the end of a cycle, on its own
\* Lines 1198-1231 of loadMergeRequests over what two consecutive successful
\* cycles can meet: per cycle any user id, any assigned health records and
\* a review-requested list that is empty or holds merge request 1 with a
\* conflict and a failed CI; and one entry of IgnoredAssignedAlertState for
\* merge request 1, either held for user 1 before the first cycle or stored
\* between the cycles for the displayed record, with its commit signature
\* and one or both of the signals it shows.
\* The record of merge request m in a list of health records.
RecordOf(items, m) == items[CHOOSE i \in 1..Len(items) : items[i].id = m]

StoreEntryCall ==
    /\ nextRun < MaxRuns /\ ignoredAssignedAlertsRef = EmptyMap
    /\ \/ /\ nextRun = 0 /\ ignoredAssignedAlertsUserIdRef = 0
          /\ \E entry \in SuppressEntries :
                 ignoredAssignedAlertsRef' = MapSet(EmptyMap, 1, entry)
          /\ ignoredAssignedAlertsUserIdRef' = 1
          /\ UNCHANGED <<tray, pure>>
       \/ /\ nextRun > 0 /\ IsCall("cycle") /\ pure.storedIgnored = EmptyMap
          /\ 1 \in Ids(assignedItems)
          /\ LET target == RecordOf(assignedItems, 1)
             IN  /\ target.hasConflicts \/ target.hasFailedCi
                 /\ \E ignoreConflicts \in BOOLEAN, ignoreFailedCi \in BOOLEAN :
                        /\ ignoreConflicts \/ ignoreFailedCi
                        /\ ignoreConflicts => target.hasConflicts
                        /\ ignoreFailedCi => target.hasFailedCi
                        /\ ignoredAssignedAlertsRef' =
                               MapSet(ignoredAssignedAlertsRef, 1,
                                      [commitSignature |->
                                           toCommitSignature(target.latestCommitAt),
                                       ignoreConflicts |-> ignoreConflicts,
                                       ignoreFailedCi |-> ignoreFailedCi])
          /\ ignoredAssignedAlertsUserIdRef' = assignedAlertSnapshotUserIdRef
          /\ tray' = summarizeTrayIndicator(
                         SelectSeq(assignedItems, LAMBDA item : item.id # 1),
                         reviewRequestedItems)
          /\ pure' = [pure EXCEPT !.call = "ignore"]
    /\ UNCHANGED <<envVars, settingsVars, failures, authVars, clientVars, loadInFlightRef, runs,
                   runVars, assignedItems, reviewRequestedItems, loading, error,
                   snapshotVars, historyVars>>

CycleCall ==
    /\ nextRun < MaxRuns
    /\ \E uid \in Users, rawAssignedSignals \in SuppressItemLists(MaxMr),
          reviewRequestedSignals \in {<<>>, <<SuppressItem(1, TRUE, TRUE, 1)>>} :
           LET sameIgnoredAssignedAlertsUser ==
                   ignoredAssignedAlertsUserIdRef # 0 /\ ignoredAssignedAlertsUserIdRef = uid
               previousIgnoredAssignedAlerts ==
                   StoredIgnoredAssignedAlerts(sameIgnoredAssignedAlertsUser,
                                               ignoredAssignedAlertsRef)
               applied == applyIgnoredAssignedAlertsUntilNewCommit(rawAssignedSignals,
                                                                   previousIgnoredAssignedAlerts)
               actionableAssignedSignals ==
                   ActionableAssignedSignals(rawAssignedSignals,
                                             applied.ignoredMergeRequestIds)
               canCompareWithPreviousSnapshot ==
                   assignedAlertSnapshotInitializedRef /\ assignedAlertSnapshotUserIdRef = uid
               previousSnapshot ==
                   SnapshotToCompare(canCompareWithPreviousSnapshot, assignedAlertSnapshotRef)
               assignedAlertDiff == detectAssignedAlertDiff(previousSnapshot,
                                                            actionableAssignedSignals)
           IN  /\ ignoredAssignedAlertsRef' = applied.nextState
               /\ ignoredAssignedAlertsUserIdRef' = uid
               /\ assignedAlertSnapshotRef'
                      = buildAssignedAlertSnapshot(actionableAssignedSignals)
               /\ assignedAlertSnapshotInitializedRef' = TRUE
               /\ assignedAlertSnapshotUserIdRef' = uid
               /\ assignedItems' = rawAssignedSignals
               /\ reviewRequestedItems' = reviewRequestedSignals
               /\ tray' = summarizeTrayIndicator(actionableAssignedSignals,
                                                 reviewRequestedSignals)
               /\ pure' = [call |-> "cycle", uid |-> uid,
                           storedIgnored |-> ignoredAssignedAlertsRef,
                           storedIgnoredUserId |-> ignoredAssignedAlertsUserIdRef,
                           applied |-> applied,
                           actionable |-> actionableAssignedSignals,
                           canCompare |-> canCompareWithPreviousSnapshot,
                           storedSnapshot |-> assignedAlertSnapshotRef,
                           diff |-> assignedAlertDiff,
                           notifies |-> NotifiesAfterDiff(canCompareWithPreviousSnapshot)
                                            /\ SendsAlert(assignedAlertDiff, "granted"),
                           displayedBefore |-> assignedItems,
                           suppressedBefore |->
                               IF nextRun = 0 THEN {}
                               ELSE pure.applied.ignoredMergeRequestIds]
    /\ nextRun' = nextRun + 1
    /\ UNCHANGED <<envVars, settingsVars, failures, authVars, clientVars, loadInFlightRef, runs,
                   dropped, loading, error, historyVars>>

SpecCycle == InitSuppress /\ [][StoreEntryCall \/ CycleCall]_vars

\* ================================================================== claims
PostApply(r) == runs[r].pc \in {"notify", "tray"}

\* C1: at most one poll cycle is executing at any time: two executions of
\* loadMergeRequests are never both between setting and clearing the
\* in-flight flag, and the flag is set exactly while one is.
C1_AtMostOneCycleInFlight ==
    /\ \A r1 \in RunIds, r2 \in RunIds : InFlight(r1) /\ InFlight(r2) => r1 = r2
    /\ loadInFlightRef <=> \E r \in RunIds : InFlight(r)

\* A second cycle is in flight after a trigger was dropped.
C1_Witness == nextRun = 2 /\ InFlight(2) /\ dropped = 1 /\ runs[2].background

\* C2: a trigger that arrives while a cycle is in flight is dropped, not
\* queued: the step that drops it issues no request and changes no state of
\* the cycle, the client, the display or the alert state, and no cycle
\* starts in any step taken while one is in flight (its end included).
C2_DroppedTriggerDoesNothing ==
    [][/\ dropped' # dropped =>
             /\ loadInFlightRef
             /\ UNCHANGED <<clientVars, loadInFlightRef, runs, nextRun, uiVars,
                            snapshotVars, ignoredVars, historyVars, envVars, failures>>
       /\ loadInFlightRef => nextRun' = nextRun
       /\ nextRun' # nextRun => dropped' = dropped]_vars

\* A trigger was dropped while the first cycle awaits its health lookups.
C2_Witness == dropped = 1 /\ nextRun = 1 /\ runs[1].pc = "health"

IgnoredSignalStillTrue(entry, item) ==
    \/ "ignoreConflicts" \in DOMAIN entry /\ entry.ignoreConflicts /\ item.hasConflicts
    \/ "ignoreFailedCi" \in DOMAIN entry /\ entry.ignoreFailedCi /\ item.hasFailedCi

C16_PerSignalSuppression ==
    "result" \in DOMAIN pure.cycle =>
        LET cycle == pure.cycle
            result == cycle.result
        IN  /\ DOMAIN result.activeIgnoredSignals = result.ignoredMergeRequestIds
            /\ \A i \in 1..Len(cycle.items) :
                   LET item == cycle.items[i]
                       X == item.id
                   IN  (/\ X \in DOMAIN cycle.previousState
                        /\ cycle.previousState[X].commitSignature
                               = toCommitSignature(item.latestCommitAt)) =>
                           LET entry == cycle.previousState[X]
                               storedConflicts ==
                                   "ignoreConflicts" \in DOMAIN entry
                                       /\ entry.ignoreConflicts = TRUE
                               storedFailedCi ==
                                   "ignoreFailedCi" \in DOMAIN entry
                                       /\ entry.ignoreFailedCi = TRUE
                               conflicts == storedConflicts /\ item.hasConflicts
                               failedCi == storedFailedCi /\ item.hasFailedCi
                           IN  /\ X \in result.ignoredMergeRequestIds
                                      <=> (conflicts \/ failedCi)
                               /\ X \in result.ignoredMergeRequestIds =>
                                      result.activeIgnoredSignals[X]
                                          = [ignoreConflicts |-> conflicts,
                                             ignoreFailedCi |-> failedCi]

\* Merge request 1 has a conflict and a failed CI and an entry of its commit
\* signature that ignores conflicts only: it is filtered, and the active
\* signals are the conflict alone. Merge request 2 has an entry that ignores
\* both signals and shows only the conflict.
C16_Witness ==
    /\ "result" \in DOMAIN pure.cycle
    /\ Len(pure.cycle.items) = 2
    /\ pure.cycle.items[1].hasConflicts /\ pure.cycle.items[1].hasFailedCi
    /\ 1 \in DOMAIN pure.cycle.previousState
    /\ pure.cycle.previousState[1]
           = [commitSignature |-> toCommitSignature(pure.cycle.items[1].latestCommitAt),
              ignoreConflicts |-> TRUE, ignoreFailedCi |-> FALSE]
    /\ 1 \in pure.cycle.result.ignoredMergeRequestIds
    /\ pure.cycle.result.activeIgnoredSignals[1]
           = [ignoreConflicts |-> TRUE, ignoreFailedCi |-> FALSE]
    /\ 2 \in pure.cycle.result.ignoredMergeRequestIds
    /\ pure.cycle.result.activeIgnoredSignals[2]
           = [ignoreConflicts |-> TRUE, ignoreFailedCi |-> FALSE]
    /\ pure.cycle.previousState[2].ignoreFailedCi = TRUE

RemoteFailedCi(m) == remote[m].ci = "failed"
RemoteConflict(m) == remote[m].conflict

\* C6: an assigned, unsuppressed merge request that newly got a conflict or
\* a failed CI on the remote between two successful cycles of the same user
\* is reported by the later cycle as newly conflicted / newly failed, and
\* an immediate notification naming it is sent when permission is granted.
C6_RemoteChangeIsNotified ==
    \A r \in RunIds :
        /\ runs[r].pc = "tray" /\ runs[r].stable /\ runs[r].failedPairs = {}
        /\ runs[r].prevOk.valid /\ runs[r].prevOk.stable
        /\ runs[r].prevOk.uid = runs[r].uid
        => \A i \in 1..Len(runs[r].actionable) :
               LET m == runs[r].actionable[i].id
                   prev == runs[r].prevOk
               IN  m \in DOMAIN prev.flags /\ m \notin prev.ignored =>
                       /\ RemoteConflict(m) /\ ~prev.flags[m].hasConflicts =>
                              /\ m \in Ids(runs[r].diff.newlyConflicted)
                              /\ runs[r].permission = "granted" =>
                                     lastAlert.run = r /\ m \in lastAlert.newlyConflicted
                       /\ RemoteFailedCi(m) /\ ~prev.flags[m].hasFailedCi =>
                              /\ m \in Ids(runs[r].diff.newlyFailedCi)
                              /\ runs[r].permission = "granted" =>
                                     lastAlert.run = r /\ m \in lastAlert.newlyFailedCi

\* C7: in every cycle each (entity key, resource kind) pair the cycle
\* consumes is requested afresh, and the health records of a cycle during
\* which the remote did not change and no request failed show the remote's
\* CI state.
C7_FreshLookupEveryCycle ==
    \A r \in RunIds :
        PostApply(r) =>
            /\ \A p \in runs[r].used : runs[r].req[p] >= 1
            /\ runs[r].stable /\ runs[r].failedPairs = {} =>
                   \A i \in 1..Len(runs[r].raw) :
                       runs[r].raw[i].hasFailedCi <=> RemoteFailedCi(runs[r].raw[i].id)

\* C8: within one cycle at most one request is issued per (entity key,
\* resource kind) pair, whatever the order in which the lookups are started
\* and answered.
C8_OneRequestPerPairPerCycle ==
    \A r \in RunIds : \A p \in Pairs : runs[r].req[p] <= 1

\* Merge request 2 is in both sets of its author's cycle; its approvals were
\* looked up by the resolver and by the own-merge-request checks, its details
\* and commits by both enrichments.
C8_Witness ==
    \E r \in RunIds :
        /\ runs[r].pc = "notes"
        /\ 2 \in Ids(runs[r].assigned) \cap Ids(runs[r].reviewRequested)
        /\ runs[r].uid = AuthorOf(2)
        /\ \A kind \in Kinds : runs[r].req[<<kind, 2>>] = 1

\* C9: a per-entity fetch that failed in a cycle is memoized as absent and
\* is not requested again in that cycle.
C9_FailedFetchIsAbsentNotRetried ==
    \A r \in RunIds :
        \A p \in runs[r].failedPairs :
            /\ runs[r].req[p] <= 1
            /\ cache[p].st = "absent"
            /\ IsAbsent(Val(cache, p[1], p[2]))

\* The commits of merge request 2 failed; the reviewer checks, which look
\* the commits up again, have been started.
C9_Witness ==
    \E r \in RunIds :
        /\ runs[r].pc = "notes"
        /\ <<"commits", 2>> \in runs[r].failedPairs
        /\ 2 \in Ids(runs[r].reviewRequested)

\* C10: the step in which identity resolution or a list query fails surfaces
\* one error (none was shown since the cycle started), sends no alert,
\* records no health, and leaves the displayed lists, the snapshot with its
\* user id and (but for the user's own ignore) the ignored state as they
\* were when the cycle started.
C10_AbortLeavesStateAlone ==
    [][\A r \in RunIds :
           runs[r].pc \in {"user", "lists"} /\ runs'[r].pc = "ended" =>
               /\ error = NoError /\ error' = ApiErrorMessage
               /\ UNCHANGED <<lastAlert, lastOk, tray, clientVars>>
               /\ <<assignedItems', reviewRequestedItems', assignedAlertSnapshotRef',
                    assignedAlertSnapshotInitializedRef',
                    assignedAlertSnapshotUserIdRef'>>
                      = SubSeq(runs[r].pre, 1, 5)
               /\ UNCHANGED ignoredVars
               /\ ~runs[r].userActed =>
                      <<ignoredAssignedAlertsRef', ignoredAssignedAlertsUserIdRef'>>
                          = SubSeq(runs[r].pre, 6, 7)]_vars

\* The second cycle failed after a successful first one: the lists of the
\* first are still displayed, next to the error.
C10_Witness ==
    /\ nextRun = 2 /\ runs[2].pc = "ended" /\ ~loadInFlightRef
    /\ error = ApiErrorMessage
    /\ lastOk.valid
    /\ Len(assignedItems) = 2
    /\ assignedAlertSnapshotInitializedRef

RiskyIds(items) ==
    {items[i].id : i \in {j \in 1..Len(items) :
                             items[j].hasConflicts \/ items[j].hasFailedCi}}

\* C14 as stated: on the first run and on the first cycle after a change of
\* user, every assigned unsuppressed merge request that is risky in the cycle
\* is handed to notifyImmediateAssignedAlerts as an alert event.
C14_FirstSightIsNotified ==
    [][\A r \in RunIds :
           (/\ runs[r].pc = "notes" /\ PostApply(r)'
            /\ ~runs'[r].canCompare
            /\ RiskyIds(runs'[r].actionable) # {}) =>
               runs'[r].pc = "notify"]_vars

\* C14 as the code has it: in a cycle whose snapshot is not comparable the
\* differ counts every risky assigned unsuppressed merge request as newly
\* risky, but the cycle skips notifyImmediateAssignedAlerts, so no alert
\* event reaches the notifier.
C14_FirstSightIsFoundNotNotified ==
    \A r \in RunIds :
        PostApply(r) /\ ~runs[r].canCompare =>
            /\ runs[r].pc = "tray"
            /\ lastAlert.run # r
            /\ Ids(runs[r].diff.newlyConflicted) \cup Ids(runs[r].diff.newlyFailedCi)
                   = RiskyIds(runs[r].actionable)

\* The first cycle after a change of user found merge request 1 conflicted
\* and went on to the tray update without a notification.
C14_Witness ==
    \E r \in RunIds :
        /\ runs[r].pc = "tray" /\ ~runs[r].canCompare
        /\ runs[r].prevOk.valid /\ runs[r].prevOk.uid # runs[r].uid
        /\ 1 \in RiskyIds(runs[r].actionable)
        /\ lastAlert.run # r

\* C15: the initial load does not notify: a cycle that finds no initialised
\* snapshot, or the snapshot of another user, skips the notification step,
\* and a notification is only ever sent by a cycle that compared against
\* the snapshot of its own user.
C15_InitialLoadDoesNotNotify ==
    [][/\ \A r \in RunIds :
              (/\ runs[r].pc = "notes" /\ PostApply(r)'
               /\ (~assignedAlertSnapshotInitializedRef
                   \/ assignedAlertSnapshotUserIdRef # runs[r].uid)) =>
                  runs'[r].pc = "tray" /\ lastAlert' = lastAlert
       /\ lastAlert' # lastAlert =>
              /\ lastAlert'.run \in RunIds
              /\ runs[lastAlert'.run].pc = "notify"
              /\ runs[lastAlert'.run].canCompare]_vars

\* The very first cycle found merge request 1 conflicted while no snapshot
\* existed, and finished its comparison without sending anything.
C15_Witness ==
    \E r \in RunIds :
        /\ runs[r].pc = "tray" /\ ~runs[r].canCompare
        /\ ~runs[r].prevOk.valid
        /\ \E i \in 1..Len(runs[r].actionable) :
               runs[r].actionable[i].id = 1 /\ runs[r].actionable[i].hasConflicts
        /\ lastAlert = NoAlert

\* C17: the alert snapshot survives a restart: the first cycle that compares
\* after a restart, run by the user whose snapshot the store holds, compares
\* against that snapshot, and a merge request the store records as conflicted
\* (with a failed CI) that still is so is not among the newly conflicted
\* (newly failed) ones.
C17_SnapshotSurvivesRestart ==
    [][\A r \in RunIds :
           (/\ runs[r].pc = "notes" /\ PostApply(r)'
            /\ restarts > 0 /\ ~lastOk.valid
            /\ store.assignedAlertSnapshotInitialized
            /\ store.assignedAlertSnapshotUserId = runs[r].uid) =>
               LET persisted == restoreAssignedAlertSnapshot(store.assignedAlertSnapshot)
                   now == runs'[r]
               IN  /\ now.canCompare
                   /\ \A i \in 1..Len(now.actionable) :
                          LET item == now.actionable[i]
                          IN  item.id \in DOMAIN persisted =>
                                  /\ (persisted[item.id].hasConflicts /\ item.hasConflicts)
                                         => item.id \notin Ids(now.diff.newlyConflicted)
                                  /\ (persisted[item.id].hasFailedCi /\ item.hasFailedCi)
                                         => item.id \notin Ids(now.diff.newlyFailedCi)]_vars

\* --------------------------------------- the suppression state, round trip
\* Any suppression state the suppressor accepts is serialized, normalized as
\* the stored settings are, and restored; the suppressor is applied to the
\* same items before and after.
RestoreStates == UNION {[S -> SuppressEntries] : S \in SUBSET MRs}

InitRestore ==
    /\ AppInit /\ (\A m \in MRs : ~remote[m].conflict)
    /\ settingsLoaded = TRUE /\ pure = NoPure

RestoreCall(state, items) ==
    /\ pure = NoPure
    /\ LET entries == serializeIgnoredAssignedAlerts(state)
           settings == normalizeAppSettings(
                           [NoSettings EXCEPT !.ignoredAssignedAlerts = entries,
                                              !.ignoredAssignedAlertsUserId = 1])
           restored == restoreIgnoredAssignedAlerts(settings.ignoredAssignedAlerts)
       IN  pure' = [call |-> "restoreIgnoredAssignedAlerts",
                    state |-> state, restored |-> restored, items |-> items,
                    before |-> applyIgnoredAssignedAlertsUntilNewCommit(items, state),
                    after |-> applyIgnoredAssignedAlertsUntilNewCommit(items, restored)]
    /\ UNCHANGED <<envVars, settingsVars, failures, authVars, clientVars, loadInFlightRef,
                   runs, runVars, uiVars, snapshotVars, ignoredVars, historyVars>>

NextRestore ==
    /\ pure = NoPure
    /\ \E state \in RestoreStates, items \in SuppressItemLists(MaxMr) :
           RestoreCall(state, items)

SpecRestore == InitRestore /\ [][NextRestore]_vars

\* C18: the suppression state survives a restart: every entry comes back
\* with its commit signature and its ignored signals, and a merge request
\* the state suppressed before the restart (same signature, the ignored
\* signal still true) is suppressed by the restored state too.
C18_SuppressionSurvivesRestart ==
    IsCall("restoreIgnoredAssignedAlerts") =>
        /\ DOMAIN pure.restored = DOMAIN pure.state
        /\ \A m \in DOMAIN pure.state :
               /\ pure.restored[m].commitSignature = pure.state[m].commitSignature
               /\ \A flag \in {"ignoreConflicts", "ignoreFailedCi"} :
                      FlagIsTrue(pure.restored[m], flag) <=> FlagIsTrue(pure.state[m], flag)
        /\ pure.before.ignoredMergeRequestIds \subseteq pure.after.ignoredMergeRequestIds

\* ------------------------------------------ the relevance resolver on its own
\* listMyRelevantMergeRequests applied to any answer of the two list queries,
\* as the tests of gitlabClient drive it: records that repeat an id, drafts,
\* reviewer states, embedded approvals, and approvals lookups that answer or
\* fail.
MaxAssignedLen == 3
MaxReviewerLen == 2
MaxNotes == 2

ReviewerStates == {"unreviewed", "reviewed", "approved", "requested_changes", "commented"}

\* A merge request of the platform without conflict or failed pipeline.
QuietRemote ==
    [assigned |-> TRUE, reviewer |-> TRUE, conflict |-> FALSE, ci |-> "success",
     commit |-> 1, approved_by |-> {}]

\* The records of the assignee-scoped query differ in the draft flag only.
AssignedRecords ==
    {[ListRecord(QuietRemote, m) EXCEPT !.draft = d] : m \in MRs, d \in BOOLEAN}

ReviewerRecords ==
    {[ListRecord(QuietRemote, m) EXCEPT !.draft = d, !.work_in_progress = w,
                                           !.reviewerState = s, !.approved_by = a] :
        m \in MRs, d \in BOOLEAN, w \in BOOLEAN, s \in ReviewerStates,
        a \in {{}, {1}}}

RECURSIVE ListsUpTo(_, _)
ListsUpTo(records, n) ==
    IF n = 0 THEN {<<>>}
    ELSE ListsUpTo(records, n - 1)
         \cup {Append(front, last) : front \in {l \in ListsUpTo(records, n - 1) :
                                                   Len(l) = n - 1},
                                     last \in records}

ApprovalLookups == {Absent, [approved_by |-> {}], [approved_by |-> {1}]}

InitResolve ==
    /\ AppInit /\ (\A m \in MRs : ~remote[m].conflict)
    /\ settingsLoaded = TRUE /\ pure = NoPure

\* The assignee-scoped half of listMyRelevantMergeRequests.
ResolveAssigned(assigned) ==
    /\ pure = NoPure
    /\ pure' = [call |-> "listMyRelevantMergeRequests", scope |-> "assigned",
                input |-> assigned, result |-> dedupeById(assigned)]
    /\ UNCHANGED <<envVars, settingsVars, failures, authVars, clientVars, loadInFlightRef,
                   runs, runVars, uiVars, snapshotVars, ignoredVars, historyVars>>

\* The reviewer-scoped half, for user 1; approvals[m] is what the approvals
\* lookup of merge request m resolves to.
ResolveReviewRequested(reviewRequested, approvals) ==
    /\ pure = NoPure
    /\ pure' = [call |-> "listMyRelevantMergeRequests", scope |-> "reviewer",
                input |-> reviewRequested, approvals |-> approvals,
                result |-> SelectSeq(FilteredReviewRequested(reviewRequested),
                                     LAMBDA mr : ~isReviewedByUser(mr, approvals[mr.id], 1))]
    /\ UNCHANGED <<envVars, settingsVars, failures, authVars, clientVars, loadInFlightRef,
                   runs, runVars, uiVars, snapshotVars, ignoredVars, historyVars>>

NextResolve ==
    \/ /\ pure = NoPure
       /\ \E assigned \in ListsUpTo(AssignedRecords, MaxAssignedLen) :
              ResolveAssigned(assigned)
    \/ /\ pure = NoPure
       /\ \E reviewRequested \in ListsUpTo(ReviewerRecords, MaxReviewerLen),
             approvals \in [MRs -> ApprovalLookups] :
              ResolveReviewRequested(reviewRequested, approvals)

SpecResolve == InitResolve /\ [][NextResolve]_vars

\* The position of the first occurrence of an id in a list, and the last
\* record of the list that has the id.
FirstIndexOf(list, id) ==
    CHOOSE i \in 1..Len(list) : list[i].id = id /\ \A j \in 1..(i - 1) : list[j].id # id
LastRecordOf(list, id) ==
    list[CHOOSE i \in 1..Len(list) :
             list[i].id = id /\ \A j \in (i + 1)..Len(list) : list[j].id # id]

\* C19: in the output of listMyRelevantMergeRequests no id occurs twice,
\* every record is the last one the input holds for its id, and the records
\* stand in the order in which their ids first occur in the input; the
\* assignee-scoped output holds every id of the input.
C19_DedupeKeepsLastInFirstOrder ==
    IsCall("listMyRelevantMergeRequests") =>
        LET input == pure.input
            result == pure.result
        IN  /\ \A i \in 1..Len(result), j \in 1..Len(result) :
                   result[i].id = result[j].id => i = j
            /\ \A i \in 1..Len(result) :
                   /\ result[i].id \in Ids(input)
                   /\ result[i] = LastRecordOf(input, result[i].id)
            /\ \A i \in 1..Len(result), j \in 1..Len(result) :
                   i < j => FirstIndexOf(input, result[i].id)
                                < FirstIndexOf(input, result[j].id)
            /\ pure.scope = "assigned" => Ids(result) = Ids(input)

\* The assignee-scoped input held merge request 1, then 2, then 1 again as
\* another record: the output is the later record of 1, then 2.
C19_Witness ==
    /\ IsCall("listMyRelevantMergeRequests") /\ pure.scope = "assigned"
    /\ Len(pure.input) = 3
    /\ pure.input[1].id = 1 /\ pure.input[2].id = 2 /\ pure.input[3].id = 1
    /\ pure.input[1] # pure.input[3]
    /\ pure.result = <<pure.input[3], pure.input[2]>>

\* Whether user 1 has already reviewed a reviewer-scoped record, told from
\* the record and the answer of the approvals lookup.
AlreadyReviewed(mr, approvals) ==
    \/ 1 \in mr.approved_by
    \/ mr.reviewerState \in {"reviewed", "approved", "requested_changes", "commented"}
    \/ ("approved_by" \in DOMAIN approvals /\ 1 \in approvals.approved_by)

\* C20: reviewRequested holds no record flagged draft or work in progress
\* and none the user has already reviewed (embedded approved_by, a reviewer
\* state of reviewed, approved, requested_changes or commented, or the
\* approvals lookup lists the user); every other reviewer-scoped merge
\* request is in it, one whose approvals lookup failed included.
C20_ReviewRequestedExcludesDraftAndReviewed ==
    (IsCall("listMyRelevantMergeRequests") /\ pure.scope = "reviewer") =>
        LET input == pure.input
            result == pure.result
            Excluded(mr) ==
                \/ mr.draft \/ mr.work_in_progress
                \/ AlreadyReviewed(mr, pure.approvals[mr.id])
        IN  /\ \A i \in 1..Len(result) : ~Excluded(result[i])
            /\ \A id \in Ids(input) :
                   ~Excluded(LastRecordOf(input, id)) => id \in Ids(result)

\* Merge request 1 is a work in progress and is left out; merge request 2
\* is neither draft nor reviewed, its approvals lookup failed, and it is in
\* reviewRequested.
C20_Witness ==
    /\ IsCall("listMyRelevantMergeRequests") /\ pure.scope = "reviewer"
    /\ Len(pure.input) = 2
    /\ pure.input[1].id = 1 /\ pure.input[1].work_in_progress /\ ~pure.input[1].draft
    /\ pure.input[2].id = 2
    /\ IsAbsent(pure.approvals[2])
    /\ pure.result = <<pure.input[2]>>

\* ---------------------------------------------------- the differ on its own
\* detectAssignedAlertDiff applied to any stored snapshot and any current
\* items, as the tests of lib/assignedAlertDiff apply it.
DiffSnapshots ==
    UNION {[S -> [hasConflicts : BOOLEAN, hasFailedCi : BOOLEAN]] : S \in SUBSET MRs}

InitDiff ==
    /\ AppInit /\ (\A m \in MRs : ~remote[m].conflict)
    /\ settingsLoaded = TRUE /\ pure = NoPure

DiffCall(previousSnapshot, currentItems) ==
    /\ pure = NoPure
    /\ pure' = [call |-> "detectAssignedAlertDiff",
                previousSnapshot |-> previousSnapshot,
                currentItems |-> currentItems,
                result |-> detectAssignedAlertDiff(previousSnapshot, currentItems)]
    /\ UNCHANGED <<envVars, settingsVars, failures, authVars, clientVars, loadInFlightRef, runs,
                   runVars, uiVars, snapshotVars, ignoredVars, historyVars>>

NextDiff ==
    \E previousSnapshot \in DiffSnapshots, currentItems \in SuppressItemLists(MaxMr) :
        DiffCall(previousSnapshot, currentItems)

SpecDiff == InitDiff /\ [][NextDiff]_vars


\* C13: detectAssignedAlertDiff puts a current item into newlyConflicted
\* (newlyFailedCi) exactly when its hasConflicts (hasFailedCi) is true and
\* the previous snapshot has no entry for its id or has that flag not true;
\* the two lists hold current items only, in their order.
C13_DiffExactlyNewRisk ==
    IsCall("detectAssignedAlertDiff") =>
        LET prev == pure.previousSnapshot
            items == pure.currentItems
            IsNew(item, flag) ==
                item[flag] /\ (item.id \notin DOMAIN prev \/ ~prev[item.id][flag])
        IN  /\ pure.result.newlyConflicted
                   = SelectSeq(items, LAMBDA item : IsNew(item, "hasConflicts"))
            /\ pure.result.newlyFailedCi
                   = SelectSeq(items, LAMBDA item : IsNew(item, "hasFailedCi"))
            /\ \A i \in 1..Len(items) :
                   /\ items[i].id \in Ids(pure.result.newlyConflicted)
                          <=> IsNew(items[i], "hasConflicts")
                   /\ items[i].id \in Ids(pure.result.newlyFailedCi)
                          <=> IsNew(items[i], "hasFailedCi")

\* Merge request 2 is absent from the previous snapshot and conflicted now:
\* it is reported; merge request 1, conflicted before and now, is not.
C13_Witness ==
    /\ IsCall("detectAssignedAlertDiff")
    /\ DOMAIN pure.previousSnapshot = {1}
    /\ pure.previousSnapshot[1].hasConflicts
    /\ Len(pure.currentItems) = 2
    /\ pure.currentItems[1].hasConflicts /\ pure.currentItems[2].hasConflicts
    /\ Ids(pure.result.newlyConflicted) = {2}

\* ------------------------------------------- buildHealthSignals, one record
\* getMergeRequestNotes: the notes of the remote, undefined when the request
\* failed.
getMergeRequestNotes(remoteNotes, ok) ==
    IF RequestThrows(ok) THEN Absent ELSE [notes |-> remoteNotes]

\* One record of buildHealthSignals for the list record mr: details,
\* approvals and commits are what the lookups resolved to, remoteNotes are
\* the notes the remote holds and notesOk tells whether their request
\* succeeded.
HealthCall(mr, currentUserId, details, approvals, commits, remoteNotes, notesOk, includeReviewerChecks) ==
    /\ pure = NoPure
    /\ pure' = [call |-> "buildHealthSignals", mr |-> mr,
                currentUserId |-> currentUserId, details |-> details,
                approvals |-> approvals, commits |-> commits,
                remoteNotes |-> remoteNotes, notesOk |-> notesOk,
                includeReviewerChecks |-> includeReviewerChecks,
                normalizedCiStatus |-> getNormalizedCiStatus(mr, details),
                result |-> Health(mr, currentUserId, details, approvals, commits,
                                  getMergeRequestNotes(remoteNotes, notesOk),
                                  includeReviewerChecks)]
    /\ UNCHANGED <<envVars, settingsVars, failures, authVars, clientVars, loadInFlightRef,
                   runs, runVars, uiVars, snapshotVars, ignoredVars, historyVars>>

\* The calls of buildHealthSignals for user 1 over one list record: the CI
\* statuses, the conflict flags, the approvals and discussions, the notes
\* and commits of a review.
NextHealth ==
    \/ /\ pure = NoPure
       /\ \E pipeline \in CiStatusValues \cup {"", "  ", "failed", "FAILED", "Success", "stuck"},
             head \in {"", "  ", "failed", "success", "running"},
             pipe \in {"", "failed", "Success", "stuck"},
             dms \in {"", "can_be_merged", "mergeable", "not_approved"},
             hasDetails \in BOOLEAN, author \in {1, 2} :
              HealthCall([ListRecord(QuietRemote, 1) EXCEPT !.pipeline = pipeline,
                                                           !.author = author],
                         1,
                         IF hasDetails
                         THEN [DetailsPayload(QuietRemote) EXCEPT
                                  !.head_pipeline = head, !.pipeline = pipe,
                                  !.detailed_merge_status = dms]
                         ELSE Absent,
                         Absent, Absent, <<>>, TRUE, FALSE)
    \/ /\ pure = NoPure
       /\ \E listConflicts \in BOOLEAN, detailConflicts \in BOOLEAN,
             listStatus \in {"can_be_merged", "cannot_be_merged", "unchecked"},
             detailStatus \in {"can_be_merged", "cannot_be_merged", "unchecked"},
             hasDetails \in BOOLEAN, author \in {1, 2} :
              HealthCall([ListRecord(QuietRemote, 1) EXCEPT !.has_conflicts = listConflicts,
                                                           !.merge_status = listStatus,
                                                           !.author = author],
                         1,
                         IF hasDetails
                         THEN [DetailsPayload(QuietRemote) EXCEPT
                                  !.has_conflicts = detailConflicts,
                                  !.merge_status = detailStatus]
                         ELSE Absent,
                         Absent, Absent, <<>>, TRUE, FALSE)
    \/ /\ pure = NoPure
       /\ \E required \in 0..2, embedded \in SUBSET Users,
             without \in SUBSET {"approvals_required", "approved_by"},
             approvals \in {Absent} \cup
                 {a @@ l @@ b :
                     a \in {<<>>, [approved |-> TRUE], [approved |-> FALSE]},
                     l \in {<<>>, [approvals_left |-> 0], [approvals_left |-> 1]},
                     b \in {<<>>, [approved_by |-> {}], [approved_by |-> {2}]}},
             details \in {Absent} \cup
                 {u @@ b @@ DetailsPayload(QuietRemote) :
                     u \in {<<>>, [unresolved_discussions_count |-> 0],
                            [unresolved_discussions_count |-> 1]},
                     b \in {<<>>, [blocking_discussions_resolved |-> TRUE],
                            [blocking_discussions_resolved |-> FALSE]}},
             author \in {1, 2} :
              HealthCall(LET mr == [ListRecord(QuietRemote, 1) EXCEPT
                                           !.approvals_required = required,
                                           !.approved_by = embedded,
                                           !.author = author]
                         IN  [f \in DOMAIN mr \ without |-> mr[f]],
                         1, details, approvals, Absent, <<>>, TRUE, FALSE)
    \/ /\ pure = NoPure
       /\ \E remoteNotes \in
                 ListsUpTo({[system |-> s, author |-> a, created_at |-> t] :
                               s \in BOOLEAN, a \in {1, 2},
                               t \in (0..(MaxLatestCommitAt + 1)) \cup {Unparseable}},
                           MaxNotes),
             commits \in {Absent} \cup
                 {[commits |-> <<t>>] :
                     t \in (0..(MaxLatestCommitAt + 1)) \cup {Unparseable}},
             notesOk \in BOOLEAN, includeReviewerChecks \in BOOLEAN :
              HealthCall([ListRecord(QuietRemote, 1) EXCEPT !.author = 2],
                         1, Absent, Absent, commits, remoteNotes, notesOk,
                         includeReviewerChecks)

SpecHealth == InitResolve /\ [][NextHealth]_vars

\* C21: the raw CI status of a health record is the head-pipeline status of
\* the details when that is non-empty, else the pipeline status of the
\* details when that is non-empty, else, only when no details were obtained,
\* the pipeline status of the list record; details without a usable status
\* give the CI status unknown whatever the list record says.
C21_CiStatusResolutionOrder ==
    IsCall("buildHealthSignals") =>
        LET d == pure.details
            head == IF IsAbsent(d) THEN "" ELSE normalizeStatusValue(d.head_pipeline)
            pipe == IF IsAbsent(d) THEN "" ELSE normalizeStatusValue(d.pipeline)
        IN  /\ head # "" => pure.normalizedCiStatus = head
            /\ (head = "" /\ pipe # "") => pure.normalizedCiStatus = pipe
            /\ (~IsAbsent(d) /\ head = "" /\ pipe = "") =>
                   (pure.normalizedCiStatus = "" /\ pure.result.ciStatus = "unknown")
            /\ IsAbsent(d) =>
                   pure.normalizedCiStatus = normalizeStatusValue(pure.mr.pipeline)

\* Details that carry only a blank head-pipeline status, over a list record
\* whose pipeline failed: the record's CI status is unknown.
C21_Witness ==
    /\ IsCall("buildHealthSignals")
    /\ ~IsAbsent(pure.details)
    /\ pure.details.head_pipeline = "  " /\ pure.details.pipeline = ""
    /\ pure.mr.pipeline = "failed"
    /\ pure.result.ciStatus = "unknown" /\ ~pure.result.hasFailedCi

\* C22: ciStatus is failed exactly when the raw status is failed and the
\* details carry no detailed merge status that says healthy (can_be_merged
\* or mergeable), in which case it is unknown; any other recognised raw value
\* maps to the value of the same name, anything else to unknown; hasFailedCi
\* is true exactly when ciStatus is failed.
C22_CiStatusClassification ==
    IsCall("buildHealthSignals") =>
        LET raw == pure.normalizedCiStatus
            d == pure.details
            healthy == /\ ~IsAbsent(d)
                       /\ normalizeStatusValue(d.detailed_merge_status)
                              \in {"can_be_merged", "mergeable"}
            ciStatus == pure.result.ciStatus
        IN  /\ ciStatus = "failed" <=> (raw = "failed" /\ ~healthy)
            /\ (raw = "failed" /\ healthy) => ciStatus = "unknown"
            /\ raw \in CiStatusValues => ciStatus = raw
            /\ raw \notin CiStatusValues \cup {"failed"} => ciStatus = "unknown"
            /\ pure.result.hasFailedCi <=> ciStatus = "failed"

\* A failed head pipeline under a detailed merge status of can_be_merged:
\* the record's CI status is unknown and it has no failed CI.
C22_Witness ==
    /\ IsCall("buildHealthSignals")
    /\ pure.normalizedCiStatus = "failed"
    /\ ~IsAbsent(pure.details)
    /\ pure.details.detailed_merge_status = "can_be_merged"
    /\ pure.result.ciStatus = "unknown" /\ ~pure.result.hasFailedCi

\* C23: hasConflicts is true exactly when the details report has_conflicts
\* or a merge status of cannot_be_merged, or, only when no details were
\* obtained, the list record's own has_conflicts or merge_status says so;
\* details that report no conflict are not overruled by the list record.
C23_ConflictsPreferDetails ==
    IsCall("buildHealthSignals") =>
        LET d == pure.details
            mr == pure.mr
        IN  pure.result.hasConflicts <=>
                IF ~IsAbsent(d)
                THEN d.has_conflicts \/ d.merge_status = "cannot_be_merged"
                ELSE mr.has_conflicts \/ mr.merge_status = "cannot_be_merged"

\* C24: hasPendingApprovals is true exactly when the approvals_required of
\* the list record (0 when missing) exceeds the number of its embedded
\* approved_by entries (0 when missing), whatever the details and the
\* approvals lookup resolved to.
C24_PendingApprovalsFromListRecord ==
    IsCall("buildHealthSignals") =>
        LET mr == pure.mr
            required == IF "approvals_required" \in DOMAIN mr
                        THEN mr.approvals_required ELSE 0
            received == IF "approved_by" \in DOMAIN mr
                        THEN Cardinality(mr.approved_by) ELSE 0
        IN  /\ required > received => pure.result.hasPendingApprovals
            /\ required <= received => ~pure.result.hasPendingApprovals

\* Two approvals required and one embedded, while the approvals lookup says
\* the merge request is approved with none left: approvals are pending.
C24_Witness ==
    /\ IsCall("buildHealthSignals")
    /\ "approvals_required" \in DOMAIN pure.mr /\ pure.mr.approvals_required = 2
    /\ "approved_by" \in DOMAIN pure.mr /\ Cardinality(pure.mr.approved_by) = 1
    /\ ~IsAbsent(pure.approvals)
    /\ "approvals_left" \in DOMAIN pure.approvals /\ pure.approvals.approvals_left = 0
    /\ "approved" \in DOMAIN pure.approvals /\ pure.approvals.approved
    /\ pure.result.hasPendingApprovals

\* The notes the notes lookup of the recorded call resolved to, and the
\* timestamp of the newest comment a user left among them (0 for none).
FetchedNotes == IF pure.notesOk THEN pure.remoteNotes ELSE <<>>
LastCommentedAt(userId) ==
    LET hits == {i \in 1..Len(FetchedNotes) :
                    /\ ~FetchedNotes[i].system
                    /\ FetchedNotes[i].author = userId
                    /\ FetchedNotes[i].created_at # 0}
    IN  IF hits = {} THEN 0
        ELSE FetchedNotes[CHOOSE i \in hits : \A j \in hits : i <= j].created_at
StrictlyLater(left, right) ==
    /\ left \in 1..(MaxLatestCommitAt + 1)
    /\ right \in 1..(MaxLatestCommitAt + 1)
    /\ left > right

\* C25: the review status is new when no comment of the current user was
\* captured; otherwise needs_review when the latest commit or the author's
\* last comment is strictly later than the reviewer's last comment; otherwise
\* waiting_for_author.  A missing, an unparseable or an equal timestamp is
\* not later.
C25_ReviewStatusRule ==
    (IsCall("buildHealthSignals") /\ pure.includeReviewerChecks) =>
        LET reviewerAt == LastCommentedAt(pure.currentUserId)
            authorAt == LastCommentedAt(pure.mr.author)
            latestCommitAt == pure.result.latestCommitAt
            status == pure.result.reviewStatus
        IN  /\ reviewerAt = 0 => status = "new"
            /\ (reviewerAt # 0 /\ (\/ StrictlyLater(latestCommitAt, reviewerAt)
                                   \/ StrictlyLater(authorAt, reviewerAt)))
                   => status = "needs_review"
            /\ (reviewerAt # 0 /\ ~StrictlyLater(latestCommitAt, reviewerAt)
                               /\ ~StrictlyLater(authorAt, reviewerAt))
                   => status = "waiting_for_author"

\* The reviewer commented at 1, the latest commit is of 1 too and the
\* author's newer comment has an unparseable timestamp: waiting_for_author.
C25_Witness ==
    /\ IsCall("buildHealthSignals") /\ pure.includeReviewerChecks /\ pure.notesOk
    /\ pure.remoteNotes = <<[system |-> FALSE, author |-> 2, created_at |-> Unparseable],
                            [system |-> FALSE, author |-> 1, created_at |-> 1]>>
    /\ pure.result.latestCommitAt = 1
    /\ pure.result.reviewStatus = "waiting_for_author"

\* C26: a health record with reviewer checks has the review status new
\* exactly when the notes of the remote hold no non-system note authored by
\* the current user.
C26_NewExactlyWhenNeverCommented ==
    (IsCall("buildHealthSignals") /\ pure.includeReviewerChecks) =>
        (pure.result.reviewStatus = "new" <=>
            ~\E i \in 1..Len(pure.remoteNotes) :
                /\ ~pure.remoteNotes[i].system
                /\ pure.remoteNotes[i].author = pure.currentUserId)

\* C26, amended: the review status is new exactly when the notes the lookup
\* resolved to, none when its request failed, hold no non-system note of the
\* current user that carries a timestamp.
C26_NewExactlyWhenNoFetchedComment ==
    (IsCall("buildHealthSignals") /\ pure.includeReviewerChecks) =>
        (pure.result.reviewStatus = "new" <=>
            ~\E i \in 1..Len(FetchedNotes) :
                /\ ~FetchedNotes[i].system
                /\ FetchedNotes[i].author = pure.currentUserId
                /\ FetchedNotes[i].created_at # 0)

\* The reviewer commented on the remote, the notes request failed, and the
\* review status is new.
C26_Witness ==
    /\ IsCall("buildHealthSignals") /\ pure.includeReviewerChecks
    /\ ~pure.notesOk
    /\ \E i \in 1..Len(pure.remoteNotes) :
           /\ ~pure.remoteNotes[i].system
           /\ pure.remoteNotes[i].author = pure.currentUserId
           /\ pure.remoteNotes[i].created_at = 1
    /\ pure.result.reviewStatus = "new"

\* C27: for a merge request authored by the current user, isApproved of
\* ownMrChecks is true exactly when the approvals payload reports approved
\* true, approvals_left 0 or a non-empty approved_by (false without a
\* payload), and hasUnresolvedComments exactly when the details report a
\* positive unresolved-discussion count or blocking_discussions_resolved
\* false; a merge request of another author has no ownMrChecks.
C27_OwnChecks ==
    IsCall("buildHealthSignals") =>
        LET a == pure.approvals
            d == pure.details
            own == pure.result.ownMrChecks
            approved == /\ ~IsAbsent(a)
                        /\ \/ ("approved" \in DOMAIN a /\ a.approved)
                           \/ ("approvals_left" \in DOMAIN a /\ a.approvals_left = 0)
                           \/ ("approved_by" \in DOMAIN a /\ a.approved_by # {})
            unresolved == /\ ~IsAbsent(d)
                          /\ \/ ("unresolved_discussions_count" \in DOMAIN d
                                    /\ d.unresolved_discussions_count > 0)
                             \/ ("blocking_discussions_resolved" \in DOMAIN d
                                    /\ ~d.blocking_discussions_resolved)
        IN  IF pure.mr.author = pure.currentUserId
            THEN /\ ~IsAbsent(own)
                 /\ own.isApproved <=> approved
                 /\ own.hasUnresolvedComments <=> unresolved
            ELSE IsAbsent(own)

\* The user's own merge request, an approvals payload that says approved
\* false with no approvals left, details with no unresolved discussion but
\* blocking discussions unresolved: approved, with unresolved comments.
C27_Witness ==
    /\ IsCall("buildHealthSignals")
    /\ pure.mr.author = pure.currentUserId
    /\ ~IsAbsent(pure.approvals)
    /\ DOMAIN pure.approvals = {"approved", "approvals_left"}
    /\ ~pure.approvals.approved /\ pure.approvals.approvals_left = 0
    /\ ~IsAbsent(pure.details)
    /\ "unresolved_discussions_count" \in DOMAIN pure.details
    /\ pure.details.unresolved_discussions_count = 0
    /\ "blocking_discussions_resolved" \in DOMAIN pure.details
    /\ ~pure.details.blocking_discussions_resolved
    /\ pure.result.ownMrChecks.isApproved
    /\ pure.result.ownMrChecks.hasUnresolvedComments

\* -------------------------------------------------- request, one response
\* request: a response whose status is not 2xx throws an Error whose message
\* holds the status and the status text.  The variant leaves them out.
requestFailingWithoutStatus(status, statusText) ==
    IF RequestThrows(status \in 200..299)
    THEN [thrown |-> TRUE, message |-> ApiErrorMessage]
    ELSE [thrown |-> FALSE]
request(status, statusText) ==
    IF RequestThrows(status \in 200..299)
    THEN [thrown |-> TRUE,
          message |-> ApiErrorMessage \o ": " \o ToString(status) \o " " \o statusText]
    ELSE [thrown |-> FALSE]

\* One request of a cycle gets its response.  What the identity request or a
\* list query throws reaches the catch of loadMergeRequests, which makes its
\* message the error of the cycle; a lookup swallows what its request throws.
RequestCall ==
    /\ pure = NoPure
    /\ \E path \in {"user", "assigned", "reviewer"} \cup Kinds,
          status \in {200, 204, 301, 401, 404, 500},
          statusText \in {"", "OK", "Unauthorized", "Not Found"} :
           LET result == request(status, statusText)
           IN  /\ pure' = [call |-> "request", path |-> path, status |-> status,
                           statusText |-> statusText, result |-> result]
               /\ error' = IF result.thrown /\ path \notin Kinds
                           THEN result.message ELSE error
    /\ UNCHANGED <<envVars, settingsVars, failures, authVars, clientVars, loadInFlightRef,
                   runs, runVars, assignedItems, reviewRequestedItems, loading, tray,
                   snapshotVars, ignoredVars, historyVars>>

SpecRequest == InitResolve /\ [][RequestCall]_vars

\* C28: a request that receives a non-2xx response fails with an error that
\* carries the numeric status and the status text of the response, and a
\* request that receives a 2xx response does not fail; the error of a failed
\* identity or list request is the error of the cycle.
C28_FailedRequestCarriesStatus ==
    IsCall("request") =>
        LET expected == "GitLab API error: " \o ToString(pure.status)
                            \o " " \o pure.statusText
        IN  /\ pure.result.thrown <=> (pure.status < 200 \/ pure.status > 299)
            /\ pure.result.thrown => pure.result.message = expected
            /\ (pure.result.thrown /\ pure.path \in {"user", "assigned", "reviewer"})
                   => error = expected

\* The identity request is answered 401 Unauthorized and the cycle's error
\* says so.
C28_Witness ==
    /\ IsCall("request")
    /\ pure.path = "user" /\ pure.status = 401 /\ pure.statusText = "Unauthorized"
    /\ pure.result.thrown
    /\ error = "GitLab API error: 401 Unauthorized"

\* C29: every cycle that starts ends, provided every request is answered;
\* the step that ends it, with or without a fatal error, clears the
\* in-flight flag, and the flag is set only while a cycle is executing.
C29_EveryCycleEnds ==
    /\ \A r \in RunIds : InFlight(r) ~> (runs[r].pc = "ended")
    /\ [][\A r \in RunIds :
              (InFlight(r) /\ runs'[r].pc = "ended") => ~loadInFlightRef']_vars
    /\ [](loadInFlightRef => \E r \in RunIds : InFlight(r))

\* The first cycle ended with a fatal error, the flag was cleared and the
\* next trigger started the second cycle.
C29_Witness ==
    /\ runs[1].pc = "ended" /\ failures = 1 /\ dropped = 0
    /\ runs[2].pc = "lists" /\ loadInFlightRef



\* C30: after every successful cycle the alert snapshot has exactly one
\* entry per merge request of the cycle's suppression-filtered assigned set,
\* with that record's hasConflicts and hasFailedCi, and no other entry: it
\* is so in the state the cycle ends in.
C30_SnapshotIsTheFilteredSet ==
    [][\A r \in RunIds :
           (runs[r].pc = "tray" /\ runs'[r].pc = "ended" /\ restarts' = restarts) =>
               /\ DOMAIN assignedAlertSnapshotRef' = Ids(runs[r].actionable)
               /\ \A i \in 1..Len(runs[r].actionable) :
                      assignedAlertSnapshotRef'[runs[r].actionable[i].id]
                          = [hasConflicts |-> runs[r].actionable[i].hasConflicts,
                             hasFailedCi |-> runs[r].actionable[i].hasFailedCi]]_vars

\* C36: for every input, applyIgnoredAssignedAlertsUntilNewCommit returns
\* ignoredMergeRequestIds, activeIgnoredSignals and nextState with the same
\* keys; every key is a key of previousState and the id of a current item;
\* every nextState entry is the previousState entry unchanged: a cycle
\* creates no entry and changes no stored signature or flag.
C36_SuppressorOnlyKeepsEntries ==
    "result" \in DOMAIN pure.cycle =>
        LET cycle == pure.cycle
            result == cycle.result
        IN  /\ DOMAIN result.activeIgnoredSignals = result.ignoredMergeRequestIds
            /\ DOMAIN result.nextState = result.ignoredMergeRequestIds
            /\ result.ignoredMergeRequestIds
                   \subseteq DOMAIN cycle.previousState \cap Ids(cycle.items)
            /\ \A X \in DOMAIN result.nextState :
                   result.nextState[X] = cycle.previousState[X]
            /\ pure.state = result.nextState

\* Both merge requests had an entry that ignores conflicts and failed CI;
\* the cycle saw only merge request 1, with a conflict and a passing CI: its
\* entry is kept with both flags, the entry of merge request 2 is dropped.
C36_Witness ==
    /\ "result" \in DOMAIN pure.cycle
    /\ DOMAIN pure.cycle.previousState = {1, 2}
    /\ \A X \in {1, 2} : /\ FlagIsTrue(pure.cycle.previousState[X], "ignoreConflicts")
                         /\ FlagIsTrue(pure.cycle.previousState[X], "ignoreFailedCi")
    /\ Ids(pure.cycle.items) = {1}
    /\ pure.cycle.items[1].hasConflicts /\ ~pure.cycle.items[1].hasFailedCi
    /\ pure.cycle.result.ignoredMergeRequestIds = {1}
    /\ pure.cycle.result.activeIgnoredSignals[1]
           = [ignoreConflicts |-> TRUE, ignoreFailedCi |-> FALSE]
    /\ pure.state[1].ignoreFailedCi = TRUE

\* The suppressor applied to the health record of a call, shown with a
\* conflict, and to one entry that ignores conflicts.
SuppressedWithEntry(entry) ==
    applyIgnoredAssignedAlertsUntilNewCommit(
        <<[pure.result EXCEPT !.hasConflicts = TRUE]>>,
        MapSet(EmptyMap, pure.result.id, entry)).ignoredMergeRequestIds # {}

\* Some commit of the commits lookup has a parseable created_at.
HasParseableCommit ==
    /\ ~IsAbsent(pure.commits)
    /\ \E i \in 1..Len(pure.commits.commits) :
           pure.commits.commits[i] \notin {0, Unparseable}

\* C35: when the commits lookup of a merge request is absent or yields no
\* parseable created_at, the commit signature of its health record is the
\* sentinel 'no-commit'; an entry stored with a real commit timestamp is
\* then dropped by the suppressor, as after a push, and an entry stored
\* with the sentinel stays.
C35_NoCommitSentinel ==
    (IsCall("buildHealthSignals") /\ ~HasParseableCommit) =>
        /\ toCommitSignature(pure.result.latestCommitAt) = <<"no-commit">>
        /\ \A entry \in SuppressEntries :
               FlagIsTrue(entry, "ignoreConflicts") =>
                   (SuppressedWithEntry(entry) <=> entry.commitSignature = <<"no-commit">>)

\* The only commit of the lookup has an unparseable created_at: the record
\* has no latest commit, an entry of timestamp 1 is dropped and an entry of
\* the sentinel suppresses.
C35_Witness ==
    /\ IsCall("buildHealthSignals")
    /\ ~IsAbsent(pure.commits)
    /\ pure.commits.commits = <<Unparseable>>
    /\ pure.result.latestCommitAt = 0
    /\ ~SuppressedWithEntry([commitSignature |-> toCommitSignature(1),
                             ignoreConflicts |-> TRUE, ignoreFailedCi |-> FALSE])
    /\ SuppressedWithEntry([commitSignature |-> toCommitSignature(0),
                            ignoreConflicts |-> TRUE, ignoreFailedCi |-> FALSE])

\* C37: a user-initiated suppression of a merge request that is displayed
\* as assigned with a conflict or a failed CI adds or replaces only that
\* merge request's entry, with the commit signature of the displayed record
\* and the chosen signals (a flag per signal, one at least true and none
\* true for a signal the record does not show), and leaves every other
\* entry and the alert snapshot unchanged; for any other merge request the
\* handler returns early and nothing changes.
C37_IgnoreStoresSignatureAndSignals ==
    [][\A mergeRequestId \in MRs :
           IgnoreMR(mergeRequestId) =>
               LET target == CHOOSE item \in {assignedItems[i] : i \in 1..Len(assignedItems)} :
                                 item.id = mergeRequestId
                   entry == ignoredAssignedAlertsRef'[mergeRequestId]
               IN  /\ target.hasConflicts \/ target.hasFailedCi
                   /\ DOMAIN ignoredAssignedAlertsRef'
                          = DOMAIN ignoredAssignedAlertsRef \cup {mergeRequestId}
                   /\ \A other \in DOMAIN ignoredAssignedAlertsRef \ {mergeRequestId} :
                          ignoredAssignedAlertsRef'[other] = ignoredAssignedAlertsRef[other]
                   /\ UNCHANGED snapshotVars
                   /\ entry.commitSignature = toCommitSignature(target.latestCommitAt)
                   /\ {"ignoreConflicts", "ignoreFailedCi"} \subseteq DOMAIN entry
                   /\ entry.ignoreConflicts \/ entry.ignoreFailedCi
                   /\ entry.ignoreConflicts => target.hasConflicts
                   /\ entry.ignoreFailedCi => target.hasFailedCi]_vars

\* C33: a suppression performed by the user while a cycle is in flight is
\* not lost: when the cycle replaces the ignored state, an entry stored
\* since the cycle started, for a merge request whose commit signature and
\* a risky signal are in the cycle's data as in the displayed record, is
\* carried over unchanged, and the rest of the cycle leaves it in place.
C33_IgnoreDuringCycleIsKept ==
    [][\A r \in RunIds :
           /\ (runs[r].pc = "notes" /\ PostApply(r)' /\ runs[r].userActed) =>
                  \A m \in DOMAIN ignoredAssignedAlertsRef \ DOMAIN runs[r].pre[6] :
                      (/\ m \in Ids(assignedItems) /\ m \in Ids(runs'[r].raw)
                       /\ ignoredAssignedAlertsUserIdRef = runs[r].uid
                       /\ LET displayed == RecordOf(assignedItems, m)
                              current == RecordOf(runs'[r].raw, m)
                          IN  /\ ignoredAssignedAlertsRef[m].commitSignature
                                     = toCommitSignature(current.latestCommitAt)
                              /\ \/ displayed.hasConflicts /\ current.hasConflicts
                                 \/ displayed.hasFailedCi /\ current.hasFailedCi) =>
                          /\ m \in DOMAIN ignoredAssignedAlertsRef'
                          /\ ignoredAssignedAlertsRef'[m] = ignoredAssignedAlertsRef[m]
           /\ (PostApply(r) /\ runs'[r].pc # runs[r].pc) => UNCHANGED ignoredVars]_vars

\* C34: once the access token has been removed (no client) and no cycle is
\* in flight, the displayed assigned and review-requested lists are empty,
\* the alert snapshot is uninitialised and the ignored state is empty, also
\* when a cycle started with the old token was in flight at the removal.
C34_NoTokenNoData ==
    (~authLoading /\ tokenChanges > 0 /\ patToken = 0 /\ ~loadInFlightRef) =>
        /\ assignedItems = <<>>
        /\ reviewRequestedItems = <<>>
        /\ assignedAlertSnapshotRef = EmptyMap
        /\ ~assignedAlertSnapshotInitializedRef
        /\ ignoredAssignedAlertsRef = EmptyMap

\* The ids of the records of a list that satisfy a test.
IdsWhere(items, Test(_)) == {items[i].id : i \in {j \in 1..Len(items) : Test(items[j])}}

\* C31: a merge request that the suppressor marks as suppressed in a cycle
\* is in neither newlyConflicted nor newlyFailedCi of that cycle, has no
\* entry in the snapshot the cycle stores and is not counted in the tray
\* summary the cycle computes; the review-requested records are displayed
\* and counted whatever is suppressed.
C31_SuppressedIsInvisible ==
    IsCall("cycle") =>
        LET suppressed == pure.applied.ignoredMergeRequestIds
            Conflicted(item) == item.hasConflicts /\ item.id \notin suppressed
            FailedCi(item) == item.hasFailedCi /\ item.id \notin suppressed
            Risky(item) == Conflicted(item) \/ FailedCi(item)
            Requested(item) == TRUE
        IN  /\ suppressed \cap Ids(pure.diff.newlyConflicted) = {}
            /\ suppressed \cap Ids(pure.diff.newlyFailedCi) = {}
            /\ suppressed \cap DOMAIN assignedAlertSnapshotRef = {}
            /\ tray.conflictCount = Cardinality(IdsWhere(assignedItems, Conflicted))
            /\ tray.failedCiCount = Cardinality(IdsWhere(assignedItems, FailedCi))
            /\ tray.reviewPendingCount = Len(reviewRequestedItems)
            /\ tray.actionableTotalCount
                   = Cardinality(IdsWhere(assignedItems, Risky)
                                 \cup IdsWhere(reviewRequestedItems, Requested))

\* Merge request 1 has a conflict and a failed CI and is suppressed by an
\* entry that ignores conflicts; merge request 2 has a conflict. The cycle
\* can compare, stores a snapshot of merge request 2 alone and counts one
\* conflict and no failed CI; merge request 1 is also in the
\* review-requested list and counted there.
C31_Witness ==
    /\ IsCall("cycle")
    /\ pure.applied.ignoredMergeRequestIds = {1}
    /\ pure.applied.activeIgnoredSignals[1].ignoreFailedCi = FALSE
    /\ pure.canCompare
    /\ Ids(assignedItems) = {1, 2}
    /\ RecordOf(assignedItems, 1).hasConflicts /\ RecordOf(assignedItems, 1).hasFailedCi
    /\ RecordOf(assignedItems, 2).hasConflicts
    /\ DOMAIN assignedAlertSnapshotRef = {2}
    /\ Ids(pure.diff.newlyConflicted) = {2}
    /\ tray = [conflictCount |-> 1, failedCiCount |-> 0, reviewPendingCount |-> 1,
               actionableTotalCount |-> 2]

\* C38: entries stored for one user are never applied in a cycle of another
\* user: such a cycle suppresses no merge request, and after it the stored
\* ignored state is empty and carries the user id of the cycle.
C38_EntriesOfAnotherUserAreNotApplied ==
    (IsCall("cycle") /\ pure.storedIgnoredUserId # pure.uid) =>
        /\ pure.applied.ignoredMergeRequestIds = {}
        /\ Ids(pure.actionable) = Ids(assignedItems)
        /\ ignoredAssignedAlertsRef = EmptyMap
        /\ ignoredAssignedAlertsUserIdRef = pure.uid

\* An entry of user 1 ignores the conflict of merge request 1 at its commit
\* signature; the cycle of user 2 sees that conflict at that commit, does
\* not suppress it and leaves an empty ignored state of user 2.
C38_Witness ==
    /\ IsCall("cycle")
    /\ pure.storedIgnoredUserId = 1 /\ pure.uid = 2
    /\ 1 \in DOMAIN pure.storedIgnored /\ 1 \in Ids(assignedItems)
    /\ FlagIsTrue(pure.storedIgnored[1], "ignoreConflicts")
    /\ RecordOf(assignedItems, 1).hasConflicts
    /\ pure.storedIgnored[1].commitSignature
           = toCommitSignature(RecordOf(assignedItems, 1).latestCommitAt)
    /\ 1 \in DOMAIN assignedAlertSnapshotRef
    /\ ignoredAssignedAlertsRef = EmptyMap /\ ignoredAssignedAlertsUserIdRef = 2

DroppedEntries == (DOMAIN pure.storedIgnored \ DOMAIN ignoredAssignedAlertsRef) \cap Ids(assignedItems)

====
